---- MODULE Spec2Model ----
(***************************************************************************)
(* KairosServer command pipeline: wire codec and per-session receive pump  *)
(* (Client.cpp, Protocol.cpp), session state machine and handshake         *)
(* (Client.cpp, NetworkManager.cpp), ingress and frame processing          *)
(* (Server.cpp, CommandProcessor.cpp), the priority command queue          *)
(* (RenderCommand.hpp) and the layer registry (LayerManager.cpp).          *)
(***************************************************************************)
EXTENDS Integers, Sequences, FiniteSets, TLC

VARIABLES
    \* ---- one Client object (Network/Client.hpp) ----
    m_state,                \* std::atomic<State> m_state
    m_socket,               \* socket_t m_socket (FD while open, -1 once closed)
    m_receive_buffer,       \* std::vector<uint8_t> m_receive_buffer
    m_receive_buffer_pos,   \* size_t m_receive_buffer_pos
    m_receive_capacity,     \* m_receive_buffer.capacity()
    m_parsed_messages,      \* std::queue<pair<MessageHeader, vector<uint8_t>>>
    wire,                   \* bytes the peer has written that recv() has not returned yet
    sent,                   \* the frames the peer wrote on the stream, in order
    delivered,              \* every message receiveMessages() has returned, in order
    reads,                  \* number of recv() calls that returned data
    \* ---- RenderCommandQueue (Graphics/RenderCommand.hpp) ----
    m_commands,             \* resident commands, in the order they were enqueued
    m_max_size,             \* size_t m_max_size, fixed at construction
    m_stats,                \* RenderCommandQueue::Stats
    now,                    \* the steady clock, one tick per queue operation
    dequeued,               \* every command dequeue()/dequeueBatch() returned to a
                            \* direct caller, in order, with the clock value of
                            \* that call (dequeued_time)
    \* ---- Server ingress and frame processing (Core/Server.cpp) ----
    m_high_priority_commands, \* std::vector<RenderCommand> m_high_priority_commands
    next_sequence,          \* per client: header.sequence of its next message
    handed,                 \* commands the ingress passed to m_command_queue.enqueue
    rendered,               \* every command CommandProcessor::processCommand was
                            \* given, in the order the renderer saw them
    \* ---- one session among the server's threads (Core/NetworkManager.cpp) ----
    pc,                     \* per thread: where it stands in the Client's code
    socket_open,            \* the descriptor FD is open in the kernel
    m_send_mutex,           \* std::mutex m_send_mutex: its holder, or "free"
    m_receive_mutex,        \* std::mutex m_receive_mutex: its holder, or "free"
    peer,                   \* frames the peer has still to write
    tx,                     \* types of the messages send() wrote to the peer
    hello,                  \* the ClientHello given to handleClientHello, if any
    registered,             \* the Client is in NetworkManager::m_clients
    \* ---- LayerManager (Core/LayerManager.cpp) ----
    m_layers,               \* std::unordered_map<uint8_t, unique_ptr<Layer>>
    m_max_layers,           \* uint32_t m_max_layers
    m_needs_sort,           \* bool m_needs_sort
    drawn_layers,           \* layer ids whose commands reached the renderer
    render_order,           \* ids getLayersInRenderOrder returned last
    m_layers_mutex,         \* std::mutex m_layers_mutex: "free", or "held" for good
    \* ---- one message through the wire codec (shared/src/Protocol.cpp) ----
    message,                \* the header and payload a sender holds
    encoded,                \* the bytes createMessage made of it, <<>> before
    decoded,                \* what parseMessages made of those bytes, <<>> before
    verdict,                \* <<validateHeader(message.header)>>, <<>> before
    dispatched,             \* what processMessage did with message, <<>> before
    \* ---- the accept thread and the session table (Core/NetworkManager.cpp) ----
    m_clients,              \* m_clients: client id -> state of the Client it holds
    m_next_client_id,       \* std::atomic<uint32_t> m_next_client_id
    accept_pc,              \* "listening", or "handshake" inside handleClientHandshake
    info_client_id,         \* m_info.client_id of the Client being handled
    rounds,                 \* rounds of the handshake loop run for it
    peer_kind,              \* what its peer does: "prompt" or "silent"
    transport_failed,       \* recv() or send() failed or met a closed peer
    server_hello,           \* the ServerHello sent to it, <<>> if none
    connected_callbacks,    \* ids m_client_connected_callback was called with
    arrivals,               \* connections accepted so far
    handled,                \* how handleNewClient ended for the last connection
    clock,                  \* the steady clock in seconds
    last_activity,          \* m_info.last_activity
    last_ping_sent,         \* m_last_ping_sent
    errors,                 \* m_info.errors
    invalid_messages,       \* m_stats.invalid_messages
    forwarded,              \* clock readings at which m_command_received_callback ran
    net_pc,                 \* where the network thread stands
    last_send,              \* what the last send() returned
    peer_reading,           \* whether the peer takes bytes off its socket
    recv_fault,             \* why receiveMessages last returned false
    emitted,                \* types of the messages written to the client
    endpoint_address,       \* m_info.endpoint_address of the Client last accepted
    client_addresses,       \* endpoint_address of the Clients stored in m_clients
    assigned_ids,           \* every id generateClientId has returned, in order
    \* ---- the NetworkManager from initialize() to shutdown() ----
    objects,                \* the Client objects alive: id -> state, socket, m_disconnect_reason
    m_running,              \* std::atomic<bool> m_running
    m_accepting_connections,  \* std::atomic<bool> m_accepting_connections
    shutdown_pc,            \* where the caller of NetworkManager::shutdown is
    accept_thread,          \* m_accept_thread: position and the Client it handshakes
    net_threads,            \* m_network_threads: position and clients_to_process of each
    pumped,                 \* the session and the fault of the step just taken
    disconnected_callbacks, \* ids m_client_disconnected_callback was called with
    \* ---- the render thread in Server::mainLoop ----
    m_shutdown_requested,   \* std::atomic<bool> m_shutdown_requested
    server_state,           \* std::atomic<State> m_state of the Server
    frame_pc,               \* where the render thread is in mainLoop/processFrame
    frames_started,         \* calls of processFrame
    frames_rendered,        \* m_stats.frames_rendered
    rendering_errors,       \* m_stats.rendering_errors
    started_after_flag,     \* calls of processFrame begun with the flag set
    flag_at,                \* frame_pc when the flag was set, "" while it is not
    \* ---- the BatchRenderer at endFrame ----
    m_render_order,         \* std::vector<RenderBatch*> m_render_order
    m_batch_merging_enabled, \* bool m_batch_merging_enabled
    submitted,              \* the render order as it was before optimizeBatches
    batch_pc,               \* "filled" before endFrame's optimize, "optimized" after
    m_batches,              \* unordered_map<BatchKey, unique_ptr<RenderBatch>>
    flushed,                \* vertices flushBatch handed to renderBatch, in order
    accepted,               \* quads drawQuads took since the last beginFrame
    quads_drawn             \* quads drawQuads took so far

rxvars == <<m_state, m_socket, m_receive_buffer, m_receive_buffer_pos,
            m_receive_capacity, m_parsed_messages, wire, sent, delivered, reads>>

qvars == <<m_commands, m_max_size, m_stats, now, dequeued>>

pvars == <<m_high_priority_commands, next_sequence, handed, rendered>>

svars == <<pc, socket_open, m_send_mutex, m_receive_mutex, peer, tx, hello,
           registered>>

lvars == <<m_layers, m_max_layers, m_needs_sort, m_layers_mutex,
           drawn_layers, render_order>>

cvars == <<message, encoded, decoded, verdict, dispatched>>

avars == <<m_clients, m_next_client_id, accept_pc, info_client_id, rounds,
           peer_kind, transport_failed, server_hello, connected_callbacks,
           arrivals, handled>>

nvars == <<clock, last_activity, last_ping_sent, errors, invalid_messages,
           forwarded, net_pc, last_send, peer_reading, recv_fault, emitted>>

ipvars == <<endpoint_address, client_addresses, assigned_ids>>

mvars == <<objects, m_running, m_accepting_connections, shutdown_pc,
           accept_thread, net_threads, pumped, disconnected_callbacks>>

fvars ==
    <<m_shutdown_requested,
      server_state,
      frame_pc,
      frames_started,
      frames_rendered,
      rendering_errors,
      started_after_flag,
      flag_at>>

bvars == <<m_render_order, m_batch_merging_enabled, submitted, batch_pc,
           m_batches, flushed, accepted, quads_drawn>>

vars == <<rxvars, qvars, pvars, svars, lvars, cvars, avars, nvars, ipvars, mvars, fvars, bvars>>

\* what a step of one subsystem leaves alone
exceptRecv == <<qvars, pvars, svars, lvars, cvars, avars, nvars, ipvars, mvars, fvars, bvars>>
exceptQueue == <<rxvars, pvars, svars, lvars, cvars, avars, nvars, ipvars, mvars, fvars, bvars>>
exceptPipeline == <<rxvars, svars, lvars, cvars, avars, nvars, ipvars, mvars, fvars, bvars>>
exceptSession ==
    <<wire, sent, delivered, reads, qvars, pvars, lvars, cvars, avars,
      nvars, ipvars,
      mvars, fvars, bvars>>
exceptLayers == <<rxvars, qvars, pvars, svars, cvars, avars, nvars, ipvars, mvars, fvars, bvars>>
exceptCodec == <<rxvars, qvars, pvars, svars, lvars, avars, nvars, ipvars, mvars, fvars, bvars>>

-----------------------------------------------------------------------------
(* Bounds of the model *)

\* transport reads that return data, per session
MaxReads == 2

\* capacity the command queue is constructed with
QueueCapacity == 2

\* queue operations in one run of the queue
MaxOps == 5

\* messages the clients send in one run of the frame pipeline
MaxMessages == 3

\* Config::Performance::command_batch_size the server runs with
CommandBatchSize == 2

\* max_layers the LayerManager is constructed with
MaxLayers == 2

\* NetworkManager::Config::max_clients the server runs with
MaxClients == 2

\* batches in the render order when endFrame begins
MaxBatches == 3

\* BatchRenderer::m_max_vertices_per_batch (10000 by default)
MaxVerticesPerBatch == 3

\* max_vertices_per_batch of the BatchRenderer whose frames are followed
BatchCapacity == 16

\* quads drawQuads is given over the frames that are followed
MaxQuads == 3

\* calls of processFrame the render thread is followed for
MaxFrames == 2

\* rendering errors after which mainLoop gives up (100 in Server::mainLoop)
RenderingErrorLimit == 1

\* connections accepted between initialize() and shutdown()
LifecycleConnections == 3

\* width in bits of the client id counter (std::atomic<uint32_t>), scaled
IdBits == 2

\* NetworkManager::Config::max_connections_per_ip the server runs with
MaxConnectionsPerIp == 1

\* connections the accept thread takes in one run
MaxConnections == 5

\* rounds of the handshake loop that fit in handshake_timeout_seconds
HandshakeRounds == 2

\* Client::Config::timeout_seconds and ping_interval_seconds, scaled down
\* from the defaults (30 and 10)
TimeoutSeconds == 2

PingIntervalSeconds == 1

\* seconds the steady clock runs for
MaxClock == 3

\* frames the peer of a served session writes
MaxWrites == 2

\* the ceiling of commands per second the rate limit is configured with
RateCeiling == 1

\* the factor by which the byte counts of the receive buffer (the 64 KiB
\* reserved and configured, the 1024 bytes asked for before each recv) are
\* divided where the buffer is filled to its limit
BufferScale == 32

\* data_size of the frame a flooding peer announces
FloodDataSize == 1048576

-----------------------------------------------------------------------------
(* Program constants *)

HeaderSize == 32
MAGIC == 1262572111
PROTOCOL_VERSION == 1
MaxDataSize == 10485760
DefaultBufferSize == 65536
MinRecvSpace == 1024
FD == 3

CLIENT_HELLO == 1
SERVER_HELLO == 2
DRAW_POINT == 16
DRAW_TEXT == 24
DRAW_TEXTURED_QUADS == 26
CLEAR_LAYER == 64
CLEAR_ALL_LAYERS == 65
FRAME_CALLBACK == 81
PING == 240
PONG == 241
DISCONNECT == 255

-----------------------------------------------------------------------------
(* Wire codec: shared/src/Protocol.cpp *)

Min(a, b) == IF a < b THEN a ELSE b

Zeros(n) == [i \in 1..n |-> 0]

\* htonl/htons: the n-byte big-endian image of x
RECURSIVE BE(_, _)
BE(n, x) == IF n = 0 THEN <<>> ELSE Append(BE(n - 1, x \div 256), x % 256)

\* ntohl/ntohs: the value of a big-endian byte image
RECURSIVE FromBE(_)
FromBE(b) ==
    IF b = <<>> THEN 0
    ELSE FromBE(SubSeq(b, 1, Len(b) - 1)) * 256 + b[Len(b)]

\* the bytes of an n-byte integer in the memory of the (little-endian) host
RECURSIVE LE(_, _)
LE(n, x) == IF n = 0 THEN <<>> ELSE <<x % 256>> \o LE(n - 1, x \div 256)

RECURSIVE FromLE(_)
FromLE(b) == IF b = <<>> THEN 0 ELSE b[1] + 256 * FromLE(Tail(b))

\* a hostToNetwork that leaves every field in host byte order
hostToNetworkUnswapped(h) ==
    LE(4, h.magic) \o LE(4, h.protocol_version) \o <<h.type, h.layer_id>>
        \o LE(2, h.reserved) \o LE(4, h.client_id) \o LE(4, h.sequence)
        \o LE(4, h.data_size) \o LE(4, h.timestamp[2]) \o LE(4, h.timestamp[1])

\* The packed 32-byte image of a header after hostToNetwork. The 64-bit
\* timestamp is kept as its two 32-bit halves <<high, low>>.
hostToNetwork(h) ==
    BE(4, h.magic) \o BE(4, h.protocol_version) \o <<h.type, h.layer_id>>
        \o BE(2, h.reserved) \o BE(4, h.client_id) \o BE(4, h.sequence)
        \o BE(4, h.data_size) \o BE(4, h.timestamp[1]) \o BE(4, h.timestamp[2])

\* memcpy of 32 wire bytes into a MessageHeader followed by networkToHost
networkToHost(b) ==
    [magic            |-> FromBE(SubSeq(b, 1, 4)),
     protocol_version |-> FromBE(SubSeq(b, 5, 8)),
     type             |-> b[9],
     layer_id         |-> b[10],
     reserved         |-> FromBE(SubSeq(b, 11, 12)),
     client_id        |-> FromBE(SubSeq(b, 13, 16)),
     sequence         |-> FromBE(SubSeq(b, 17, 20)),
     data_size        |-> FromBE(SubSeq(b, 21, 24)),
     timestamp        |-> <<FromBE(SubSeq(b, 25, 28)), FromBE(SubSeq(b, 29, 32))>>]

createHeader(type, client_id, sequence, data_size, layer_id) ==
    [magic |-> MAGIC, protocol_version |-> PROTOCOL_VERSION, type |-> type,
     layer_id |-> layer_id, reserved |-> 0, client_id |-> client_id,
     sequence |-> sequence, data_size |-> data_size, timestamp |-> <<0, sequence>>]

createMessage(header, data) == hostToNetwork(header) \o data

validateHeader(header) ==
    /\ header.magic = MAGIC
    /\ header.protocol_version = PROTOCOL_VERSION
    /\ ~(header.type > DISCONNECT)
    /\ ~(header.data_size > MaxDataSize)

-----------------------------------------------------------------------------
(* Receive pump: KairosServer/src/Network/Client.cpp *)

isConnected(state) == state \in {"CONNECTED", "HANDSHAKE"}

validateMessageSize(size) == size <= MaxDataSize

validateMessageHeader(header) ==
    validateHeader(header) /\ validateMessageSize(header.data_size)

compactReceiveBuffer(buf, pos) ==
    IF pos > 0
    THEN [buf |-> SubSeq(buf, pos + 1, Len(buf)), pos |-> 0]
    ELSE [buf |-> buf, pos |-> pos]

\* second half of ensureReceiveBufferSpace, c being the compacted buffer and
\* receive_buffer_size the configured size
ensureAfterCompact(c, cap, needed_space, receive_buffer_size) ==
    IF cap - Len(c.buf) < needed_space
    THEN IF cap + needed_space > receive_buffer_size * 2
         THEN [ok |-> FALSE, buf |-> c.buf, pos |-> c.pos, cap |-> cap]
         ELSE [ok |-> TRUE, buf |-> c.buf, pos |-> c.pos,
               cap |-> cap + needed_space]
    ELSE [ok |-> TRUE, buf |-> c.buf, pos |-> c.pos, cap |-> cap]

\* ensureReceiveBufferSpace of a Client configured with receive_buffer_size
ensureBufferSpace(buf, pos, cap, needed_space, receive_buffer_size) ==
    IF cap - Len(buf) < needed_space
    THEN ensureAfterCompact(compactReceiveBuffer(buf, pos), cap, needed_space,
                            receive_buffer_size)
    ELSE [ok |-> TRUE, buf |-> buf, pos |-> pos, cap |-> cap]

\* with the default configuration
ensureReceiveBufferSpace(buf, pos, cap, needed_space) ==
    ensureBufferSpace(buf, pos, cap, needed_space, DefaultBufferSize)

\* recv() stores the chunk at data() + m_receive_buffer_pos; the vector was
\* resized to its capacity (new elements are zero) and is then cut back to
\* old size + result.
recvInto(buf, pos, chunk) ==
    [i \in 1..(Len(buf) + Len(chunk)) |->
        IF i > pos /\ i <= pos + Len(chunk) THEN chunk[i - pos]
        ELSE IF i <= Len(buf) THEN buf[i]
        ELSE 0]

\* The while loop of parseMessages: ok = FALSE when a header fails
\* validation. parseStep is one iteration, header being the parsed header.
RECURSIVE parseLoop(_, _, _)
parseStep(buf, pos, q, header) ==
    IF ~validateMessageHeader(header)
    THEN [ok |-> FALSE, pos |-> pos, q |-> q]
    ELSE IF Len(buf) - pos < HeaderSize + header.data_size
    THEN [ok |-> TRUE, pos |-> pos, q |-> q]
    ELSE parseLoop(buf, pos + HeaderSize + header.data_size,
             Append(q, [header |-> header,
                        data |-> SubSeq(buf, pos + HeaderSize + 1,
                                        pos + HeaderSize + header.data_size)]))

parseLoop(buf, pos, q) ==
    IF Len(buf) - pos >= HeaderSize
    THEN parseStep(buf, pos, q,
                   networkToHost(SubSeq(buf, pos + 1, pos + HeaderSize)))
    ELSE [ok |-> TRUE, pos |-> pos, q |-> q]

\* the compaction that ends parseMessages, r being the loop's result
parseCompact(buf, r) ==
    IF ~r.ok
    THEN [ok |-> FALSE, buf |-> buf, pos |-> r.pos, q |-> r.q]
    ELSE IF r.pos > Len(buf) \div 2
    THEN [ok |-> TRUE, buf |-> compactReceiveBuffer(buf, r.pos).buf,
          pos |-> 0, q |-> r.q]
    ELSE [ok |-> TRUE, buf |-> buf, pos |-> r.pos, q |-> r.q]

parseMessages(buf, pos, q) == parseCompact(buf, parseLoop(buf, pos, q))

\* what receiveRawData does once buffer space is ensured (e), given what
\* recv() did: "data" (chunk), "eagain", "eof" (result 0) or "error"
recvOutcome(e, state, result, chunk) ==
    IF ~e.ok
    THEN [ok |-> FALSE, buf |-> e.buf, pos |-> e.pos, cap |-> e.cap,
          state |-> state]
    ELSE CASE result = "data" ->
                [ok |-> TRUE, buf |-> recvInto(e.buf, e.pos, chunk),
                 pos |-> e.pos, cap |-> e.cap, state |-> state]
           [] result = "eagain" ->
                [ok |-> TRUE, buf |-> e.buf, pos |-> e.pos, cap |-> e.cap,
                 state |-> state]
           [] result = "eof" ->
                [ok |-> FALSE, buf |-> e.buf, pos |-> e.pos, cap |-> e.cap,
                 state |-> "DISCONNECTED"]
           [] OTHER ->
                [ok |-> FALSE, buf |-> e.buf, pos |-> e.pos, cap |-> e.cap,
                 state |-> "ERROR"]

receiveRawData(buf, pos, cap, state, socket, result, chunk) ==
    IF socket = -1
    THEN [ok |-> FALSE, buf |-> buf, pos |-> pos, cap |-> cap, state |-> state]
    ELSE recvOutcome(ensureReceiveBufferSpace(buf, pos, cap, MinRecvSpace),
                     state, result, chunk)

\* receiveMessages after parseMessages returned p: hand back the queue
drainParsed(p, cap, state) ==
    IF ~p.ok
    THEN [ok |-> FALSE, buf |-> p.buf, pos |-> p.pos, cap |-> cap, q |-> p.q,
          state |-> "ERROR", messages |-> <<>>]
    ELSE [ok |-> TRUE, buf |-> p.buf, pos |-> p.pos, cap |-> cap, q |-> <<>>,
          state |-> state, messages |-> p.q]

\* receiveMessages after receiveRawData returned r
parseReceived(r, q) ==
    IF ~r.ok
    THEN [ok |-> FALSE, buf |-> r.buf, pos |-> r.pos, cap |-> r.cap,
          q |-> q, state |-> r.state, messages |-> <<>>]
    ELSE drainParsed(parseMessages(r.buf, r.pos, q), r.cap, r.state)

\* Client::receiveMessages as one call: the new fields of the Client and
\* the messages handed back to the caller.
receiveMessages(buf, pos, cap, q, state, socket, result, chunk) ==
    IF ~isConnected(state)
    THEN [ok |-> FALSE, buf |-> buf, pos |-> pos, cap |-> cap, q |-> q,
          state |-> state, messages |-> <<>>]
    ELSE parseReceived(
             receiveRawData(buf, pos, cap, state, socket, result, chunk), q)

-----------------------------------------------------------------------------
(* Priority command queue: RenderCommandQueue. Its member functions are     *)
(* declared in Graphics/RenderCommand.hpp; their bodies are taken from the  *)
(* specification (section 4.4, "Priority queue").                           *)

LOW == 0
NORMAL == 1
HIGH == 2
CRITICAL == 3

Priorities == {LOW, NORMAL, HIGH, CRITICAL}

\* RenderCommand::Type, in declaration order
T_DRAW_POINT == 0
T_DRAW_LINE == 1
T_DRAW_RECTANGLE == 2
T_DRAW_TEXT == 5
T_DRAW_TEXTURED_QUADS == 6
T_CLEAR_LAYER == 7

\* RenderCommand(cmd_type, layer, prio): the other fields are zero and
\* created_time is the clock at construction. msg_sequence records the
\* header.sequence of the message a command was converted from (0: none).
RenderCommand(cmd_type, layer, prio, created) ==
    [type |-> cmd_type, priority |-> prio, layer_id |-> layer, client_id |-> 0,
     sequence_id |-> 0, created_time |-> created, msg_sequence |-> 0]

NewStats == [total_enqueued |-> 0, total_dequeued |-> 0, total_dropped |-> 0,
             peak_size |-> 0]

Max(a, b) == IF a > b THEN a ELSE b

RemoveAt(s, i) == SubSeq(s, 1, i - 1) \o SubSeq(s, i + 1, Len(s))

\* a full() that lets one command too many in
queueFullLate(cmds, max_size) == Len(cmds) > max_size

\* full(): no room for another command
queueFull(cmds, max_size) == Len(cmds) >= max_size

\* enqueue(cmd): counted as an attempt; dropped (and counted) when full
queueEnqueue(cmds, stats, max_size, cmd) ==
    IF queueFull(cmds, max_size)
    THEN [ok |-> FALSE, commands |-> cmds,
          stats |-> [stats EXCEPT !.total_enqueued = @ + 1,
                                  !.total_dropped = @ + 1]]
    ELSE [ok |-> TRUE, commands |-> Append(cmds, cmd),
          stats |-> [stats EXCEPT !.total_enqueued = @ + 1,
                                  !.peak_size = Max(@, Len(cmds) + 1)]]

\* a consumer that takes the oldest resident command whatever its priority
queueFrontOldest(cmds) == 1

\* a consumer that takes the newest of the highest-priority commands
queueFrontNewest(cmds) ==
    CHOOSE i \in 1..Len(cmds) :
        \A j \in 1..Len(cmds) :
            \/ cmds[j].priority < cmds[i].priority
            \/ (cmds[j].priority = cmds[i].priority /\ j <= i)

\* the command the consumer takes next: highest priority, and among those
\* the earliest enqueued
queueFront(cmds) ==
    CHOOSE i \in 1..Len(cmds) :
        \A j \in 1..Len(cmds) :
            \/ cmds[j].priority < cmds[i].priority
            \/ (cmds[j].priority = cmds[i].priority /\ j >= i)

\* dequeueBatch(max_count): up to max_count commands in consumer order
RECURSIVE queueTake(_, _, _)
queueTake(cmds, max_count, out) ==
    IF max_count = 0 \/ cmds = <<>>
    THEN [commands |-> cmds, out |-> out]
    ELSE queueTake(RemoveAt(cmds, queueFront(cmds)), max_count - 1,
                   Append(out, cmds[queueFront(cmds)]))

\* a clear() that forgets to count what it discards
queueClearUncounted(cmds, stats) == [commands |-> <<>>, stats |-> stats]

\* clear(): the resident commands are discarded and counted as dropped
queueClear(cmds, stats) ==
    [commands |-> <<>>,
     stats |-> [stats EXCEPT !.total_dropped = @ + Len(cmds)]]

\* RenderCommandQueue(max_size)
QueueNew ==
    /\ m_commands = <<>>
    /\ m_max_size = QueueCapacity
    /\ m_stats = NewStats
    /\ now = 0
    /\ dequeued = <<>>

\* the queue is not part of the run
QueueIdle ==
    /\ m_commands = <<>>
    /\ m_max_size = 0
    /\ m_stats = NewStats
    /\ now = 0
    /\ dequeued = <<>>

EnqueueApply(r) ==
    /\ m_commands' = r.commands
    /\ m_stats' = r.stats
    /\ now' = now + 1
    /\ UNCHANGED <<m_max_size, dequeued>>
    /\ UNCHANGED exceptQueue

\* bool enqueue(RenderCommand&&)
Enqueue ==
    /\ now < MaxOps
    /\ \E prio \in Priorities :
          EnqueueApply(queueEnqueue(m_commands, m_stats, m_max_size,
                           RenderCommand(T_DRAW_POINT, 1, prio, now)))

Stamp(out, t) ==
    [i \in 1..Len(out) |-> [command |-> out[i], dequeued_time |-> t]]

DequeueApply(r) ==
    /\ m_commands' = r.commands
    /\ m_stats' = [m_stats EXCEPT !.total_dequeued = @ + Len(r.out)]
    /\ dequeued' = dequeued \o Stamp(r.out, now)
    /\ now' = now + 1
    /\ UNCHANGED m_max_size
    /\ UNCHANGED exceptQueue

\* bool dequeue(RenderCommand&)
Dequeue ==
    /\ now < MaxOps
    /\ DequeueApply(queueTake(m_commands, 1, <<>>))

\* std::vector<RenderCommand> dequeueBatch(size_t max_count)
DequeueBatch ==
    /\ now < MaxOps
    /\ \E max_count \in 2..(QueueCapacity + 1) :
          DequeueApply(queueTake(m_commands, max_count, <<>>))

ClearApply(r) ==
    /\ m_commands' = r.commands
    /\ m_stats' = r.stats
    /\ now' = now + 1
    /\ UNCHANGED <<m_max_size, dequeued>>
    /\ UNCHANGED exceptQueue

\* void clear()
Clear ==
    /\ now < MaxOps
    /\ ClearApply(queueClear(m_commands, m_stats))

QueueNext == Enqueue \/ Dequeue \/ DequeueBatch \/ Clear

RecvIdle ==
    /\ m_state = "CONNECTING"
    /\ m_socket = FD
    /\ m_receive_buffer = <<>>
    /\ m_receive_buffer_pos = 0
    /\ m_receive_capacity = DefaultBufferSize
    /\ m_parsed_messages = <<>>
    /\ sent = <<>>
    /\ wire = <<>>
    /\ delivered = <<>>
    /\ reads = 0

LayersIdle ==
    /\ m_layers = <<>>
    /\ m_max_layers = 0
    /\ m_needs_sort = FALSE
    /\ m_layers_mutex = "free"
    /\ drawn_layers = {}
    /\ render_order = <<>>

SessionIdle ==
    /\ pc = <<>>
    /\ socket_open = TRUE
    /\ m_send_mutex = "free"
    /\ m_receive_mutex = "free"
    /\ peer = <<>>
    /\ tx = <<>>
    /\ hello = <<>>
    /\ registered = FALSE

PipelineIdle ==
    /\ m_high_priority_commands = <<>>
    /\ next_sequence = <<>>
    /\ handed = 0
    /\ rendered = <<>>

CodecIdle ==
    /\ message = <<>>
    /\ encoded = <<>>
    /\ decoded = <<>>
    /\ verdict = <<>>
    /\ dispatched = <<>>

AcceptIdle ==
    /\ m_clients = <<>>
    /\ m_next_client_id = 1
    /\ accept_pc = "listening"
    /\ info_client_id = 0
    /\ rounds = 0
    /\ peer_kind = "silent"
    /\ transport_failed = FALSE
    /\ server_hello = <<>>
    /\ connected_callbacks = {}
    /\ arrivals = 0
    /\ handled = <<>>

ServeIdle ==
    /\ clock = 0
    /\ last_activity = 0
    /\ last_ping_sent = 0
    /\ errors = 0
    /\ invalid_messages = 0
    /\ forwarded = <<>>
    /\ net_pc = "idle"
    /\ last_send = "none"
    /\ peer_reading = TRUE
    /\ recv_fault = "none"
    /\ emitted = <<>>

AddressIdle ==
    /\ endpoint_address = ""
    /\ client_addresses = <<>>
    /\ assigned_ids = <<>>

ManagerIdle ==
    /\ objects = <<>>
    /\ m_running = FALSE
    /\ m_accepting_connections = FALSE
    /\ shutdown_pc = "idle"
    /\ accept_thread = <<>>
    /\ net_threads = <<>>
    /\ pumped = <<>>
    /\ disconnected_callbacks = <<>>

FrameIdle ==
    /\ m_shutdown_requested = FALSE
    /\ server_state = "STOPPED"
    /\ frame_pc = "exited"
    /\ frames_started = 0
    /\ frames_rendered = 0
    /\ rendering_errors = 0
    /\ started_after_flag = 0
    /\ flag_at = ""

BatchIdle ==
    /\ m_render_order = <<>>
    /\ m_batch_merging_enabled = TRUE
    /\ submitted = <<>>
    /\ batch_pc = "flushed"
    /\ m_batches = <<>>
    /\ flushed = <<>>
    /\ accepted = {}
    /\ quads_drawn = 0

QueueInit ==
    /\ QueueNew
    /\ RecvIdle
    /\ PipelineIdle
    /\ SessionIdle
    /\ LayersIdle
    /\ CodecIdle
    /\ BatchIdle
    /\ FrameIdle
    /\ ManagerIdle
    /\ AddressIdle
    /\ ServeIdle
    /\ AcceptIdle

SpecQueue == QueueInit /\ [][QueueNext]_vars

\* command b was resident when the dequeue that returned entry d ran
ResidentAt(b, d) == b.created_time < d.dequeued_time

\* C5: for every pair of commands (a, b) with priority(a) > priority(b) that
\* are both in the queue when the first of them is dequeued, a dequeues
\* before b whatever the enqueue order: no command is returned while a
\* command of higher priority is resident, be that one returned later or
\* still in the queue.
C5_PriorityOrder ==
    /\ \A i, j \in 1..Len(dequeued) :
          (i < j /\ dequeued[j].command.priority > dequeued[i].command.priority)
              => ~ResidentAt(dequeued[j].command, dequeued[i])
    /\ \A i \in 1..Len(dequeued) : \A k \in 1..Len(m_commands) :
          m_commands[k].priority > dequeued[i].command.priority
              => ~ResidentAt(m_commands[k], dequeued[i])

\* a higher-priority command enqueued after a lower one, both resident, was
\* returned first
C5_Witness ==
    \E i, j \in 1..Len(dequeued) :
        /\ i < j
        /\ dequeued[i].command.priority > dequeued[j].command.priority
        /\ dequeued[i].command.created_time > dequeued[j].command.created_time
        /\ ResidentAt(dequeued[j].command, dequeued[i])

\* C6: of two commands of equal priority in the queue, the one enqueued
\* earlier is dequeued first.
C6_FifoWithinPriority ==
    /\ \A i, j \in 1..Len(dequeued) :
          (i < j /\ dequeued[i].command.priority = dequeued[j].command.priority)
              => dequeued[i].command.created_time
                     < dequeued[j].command.created_time
    /\ \A i \in 1..Len(dequeued) : \A k \in 1..Len(m_commands) :
          m_commands[k].priority = dequeued[i].command.priority
              => dequeued[i].command.created_time < m_commands[k].created_time

\* two commands of equal priority were resident together and both returned
C6_Witness ==
    \E i, j \in 1..Len(dequeued) :
        /\ i < j
        /\ dequeued[i].command.priority = dequeued[j].command.priority
        /\ ResidentAt(dequeued[j].command, dequeued[i])

C8_BoundedQueue ==
    /\ Len(m_commands) <= m_max_size
    /\ m_stats.peak_size <= m_max_size

\* an enqueue was attempted on a full queue, which stayed at capacity
C8_Witness ==
    /\ Len(m_commands) = m_max_size
    /\ m_stats.total_dropped > 0

-----------------------------------------------------------------------------
(* Ingress and frame processing: NetworkManager::processMessage,            *)
(* CommandConverter, Server::onCommandReceived, Server::processCommands,    *)
(* CommandProcessor::processCommandBatch                                    *)

Clients == {1, 2}
Layers == {0, 1}
CommandMessages == {DRAW_POINT, DRAW_TEXT, CLEAR_LAYER}

\* sizeof(DrawTextData)
DrawTextDataSize == 24

\* frames a peer writes: DRAW_POINT carries a 12-byte DrawPointData,
\* CLEAR_LAYER carries no payload
DrawPointPayload == <<0, 0, 0, 1, 0, 0, 32, 66, 0, 0, 32, 65>>

\* bytes of payload a client sends with a message of the given type (a
\* DRAW_TEXT carries a one-character string)
PayloadSize(type) ==
    CASE type = DRAW_POINT -> Len(DrawPointPayload)
      [] type = DRAW_TEXT -> DrawTextDataSize + 1
      [] OTHER -> 0

validateMessage(header, data) ==
    /\ validateHeader(header)
    /\ Len(data) = header.data_size
    /\ ~(header.data_size > MaxDataSize)

\* CommandConverter::fromNetworkMessage: priority keeps its default and
\* sequence_id is never assigned
fromNetworkMessage(header, created) ==
    [(CASE header.type = DRAW_POINT ->
              RenderCommand(T_DRAW_POINT, header.layer_id, NORMAL, created)
        [] header.type = DRAW_TEXT ->
              RenderCommand(T_DRAW_TEXT, header.layer_id, NORMAL, created)
        [] header.type = DRAW_TEXTURED_QUADS ->
              RenderCommand(T_DRAW_TEXTURED_QUADS, header.layer_id, NORMAL,
                            created)
        [] header.type = CLEAR_LAYER ->
              RenderCommand(T_CLEAR_LAYER, header.layer_id, NORMAL, created)
        [] OTHER -> RenderCommand(T_DRAW_POINT, 0, NORMAL, created))
     EXCEPT !.msg_sequence = header.sequence]

\* an ingress that checks full() itself and returns without calling enqueue
onCommandReceivedSkipFull(cmds, stats, max_size, high, client_id, command) ==
    IF command.priority >= HIGH
    THEN [commands |-> cmds, stats |-> stats,
          high |-> Append(high, [command EXCEPT !.client_id = client_id]),
          handed |-> 0]
    ELSE IF queueFull(cmds, max_size)
    THEN [commands |-> cmds, stats |-> stats, high |-> high, handed |-> 1]
    ELSE [commands |-> Append(cmds, [command EXCEPT !.client_id = client_id]),
          stats |-> [stats EXCEPT !.total_enqueued = @ + 1],
          high |-> high, handed |-> 1]

\* the else branch of onCommandReceived, r being what enqueue() did
commandEnqueued(r, high) ==
    [commands |-> r.commands, stats |-> r.stats, high |-> high, handed |-> 1]

\* Server::onCommandReceived: HIGH and CRITICAL go to the side vector, the
\* rest to the queue, whose verdict is not looked at
onCommandReceived(cmds, stats, max_size, high, client_id, command) ==
    IF command.priority >= HIGH
    THEN [commands |-> cmds, stats |-> stats,
          high |-> Append(high, [command EXCEPT !.client_id = client_id]),
          handed |-> 0]
    ELSE commandEnqueued(
             queueEnqueue(cmds, stats, max_size,
                          [command EXCEPT !.client_id = client_id]), high)

\* NetworkManager::processMessage for a message of a session whose id is
\* client_id; the control messages do not reach the callback
processMessage(cmds, stats, max_size, high, client_id, header, data, created) ==
    IF ~validateMessage(header, data) \/ header.type \in {PING, PONG, DISCONNECT}
    THEN [commands |-> cmds, stats |-> stats, high |-> high, handed |-> 0]
    ELSE onCommandReceived(cmds, stats, max_size, high, client_id,
                           fromNetworkMessage(header, created))

\* the comparison of Server::optimizeCommandOrder
orderLess(a, b) ==
    IF a.layer_id # b.layer_id THEN a.layer_id < b.layer_id
    ELSE a.type < b.type

\* std::sort with that comparison: any arrangement in which no element
\* precedes one it should follow (the sort is not stable)
optimizeCommandOrder(commands) ==
    { [i \in 1..Len(commands) |-> commands[p[i]]] :
        p \in { q \in Permutations(1..Len(commands)) :
                   \A i, j \in 1..Len(commands) :
                       i < j => ~orderLess(commands[q[j]], commands[q[i]]) } }

\* the orders in which the unordered_map of processCommandBatch may hand
\* out its layers
layerOrders(commands) ==
    Permutations({ commands[i].layer_id :
                     i \in { k \in 1..Len(commands) :
                                commands[k].priority < HIGH } })

\* the layers as a sequence, for an order o: layer -> layer
RECURSIVE layerSequence(_, _)
layerSequence(o, todo) ==
    IF todo = {} THEN <<>>
    ELSE <<o[CHOOSE l \in todo : \A m \in todo : l <= m]>>
             \o layerSequence(o, todo \ {CHOOSE l \in todo : \A m \in todo : l <= m})

\* CommandProcessor::processLayerCommands: textured quads, then text, then
\* the primitives one by one
processLayerCommands(commands) ==
    SelectSeq(commands, LAMBDA c : c.type = T_DRAW_TEXTURED_QUADS)
        \o SelectSeq(commands, LAMBDA c : c.type = T_DRAW_TEXT)
        \o SelectSeq(commands,
                     LAMBDA c : c.type \notin {T_DRAW_TEXTURED_QUADS, T_DRAW_TEXT})

RECURSIVE processLayers(_, _)
processLayers(commands, layers) ==
    IF layers = <<>> THEN <<>>
    ELSE processLayerCommands(
             SelectSeq(commands,
                       LAMBDA c : c.priority < HIGH /\ c.layer_id = Head(layers)))
             \o processLayers(commands, Tail(layers))

\* CommandProcessor::processCommandBatch: the commands in the order they are
\* given to processCommand
processCommandBatch(commands, layers) ==
    SelectSeq(commands, LAMBDA c : c.priority >= HIGH)
        \o processLayers(commands, layers)

PipelineInit ==
    /\ QueueNew
    /\ RecvIdle
    /\ SessionIdle
    /\ LayersIdle
    /\ CodecIdle
    /\ BatchIdle
    /\ FrameIdle
    /\ ManagerIdle
    /\ AddressIdle
    /\ ServeIdle
    /\ AcceptIdle
    /\ m_high_priority_commands = <<>>
    /\ next_sequence = [c \in Clients |-> 1]
    /\ handed = 0
    /\ rendered = <<>>

IngressApply(c, r) ==
    /\ m_commands' = r.commands
    /\ m_stats' = r.stats
    /\ m_high_priority_commands' = r.high
    /\ handed' = handed + r.handed
    /\ next_sequence' = [next_sequence EXCEPT ![c] = @ + 1]
    /\ now' = now + 1
    /\ UNCHANGED <<m_max_size, dequeued, rendered>>
    /\ UNCHANGED exceptPipeline

\* a network thread passes one received message of client c through
\* processMessage and the command callback
CommandReceived ==
    /\ now < MaxMessages
    /\ \E c \in Clients, type \in CommandMessages, layer \in Layers :
          IngressApply(c,
              processMessage(m_commands, m_stats, m_max_size,
                  m_high_priority_commands, c,
                  createHeader(type, c, next_sequence[c], PayloadSize(type), layer),
                  Zeros(PayloadSize(type)), now))

FrameApply(r) ==
    /\ m_commands' = r.commands
    /\ m_stats' = [m_stats EXCEPT !.total_dequeued = @ + Len(r.out)]
    /\ m_high_priority_commands' = <<>>
    /\ \E sorted \in optimizeCommandOrder(r.out), o \in layerOrders(r.out) :
          rendered' = rendered \o m_high_priority_commands
                          \o processCommandBatch(sorted,
                                 layerSequence(o, DOMAIN o))
    /\ UNCHANGED <<m_max_size, now, dequeued, next_sequence, handed>>
    /\ UNCHANGED exceptPipeline

\* Server::processCommands, once per frame on the main thread
ProcessCommands ==
    /\ m_commands # <<>> \/ m_high_priority_commands # <<>>
    /\ FrameApply(queueTake(m_commands, CommandBatchSize, <<>>))

PipelineNext == CommandReceived \/ ProcessCommands

SpecPipeline == PipelineInit /\ [][PipelineNext]_vars

\* C2: for each client, the sequence numbers of its commands in the order
\* the renderer observes them never decrease.
C2_SequenceMonotone ==
    \A i, j \in 1..Len(rendered) :
        (i < j /\ rendered[i].client_id = rendered[j].client_id)
            => rendered[i].msg_sequence <= rendered[j].msg_sequence

\* C9: every command the ingress hands to the queue is accepted, or, the
\* queue being full, dropped with total_dropped raised by exactly one; so the
\* commands handed over are all resident, dequeued or counted as dropped.
C9_EnqueueAcceptsOrCountsDrop ==
    [][handed' # handed =>
          /\ handed' = handed + 1
          /\ \/ /\ Len(m_commands') = Len(m_commands) + 1
                /\ m_stats'.total_dropped = m_stats.total_dropped
             \/ /\ Len(m_commands) = m_max_size
                /\ m_commands' = m_commands
                /\ m_stats'.total_dropped = m_stats.total_dropped + 1
          /\ handed' = Len(m_commands') + m_stats'.total_dequeued
                           + m_stats'.total_dropped]_vars

\* the ingress handed a command to a full queue and it was counted dropped
C9_Witness ==
    /\ handed > m_max_size
    /\ m_stats.total_dropped >= 1
    /\ Len(m_commands) = m_max_size

\* the commands the frame just processed handed to the renderer
applied(before, after) == SubSeq(after, Len(before) + 1, Len(after))

\* C25: the commands of one frame reach the renderer by falling priority,
\* and those of equal priority in the order in which they arrived.
C25_PriorityThenFifo ==
    [][\A i, j \in DOMAIN applied(rendered, rendered') :
          i < j =>
             /\ applied(rendered, rendered')[i].priority
                   >= applied(rendered, rendered')[j].priority
             /\ (applied(rendered, rendered')[i].priority
                    = applied(rendered, rendered')[j].priority
                 => applied(rendered, rendered')[i].created_time
                       <= applied(rendered, rendered')[j].created_time)]_vars

\* CommandConverter::assignPriority
assignPriority(message_type, layer_id) ==
    IF layer_id = 0 THEN HIGH
    ELSE IF message_type \in {CLEAR_LAYER, CLEAR_ALL_LAYERS} THEN HIGH
    ELSE IF message_type \in {DRAW_TEXT, DRAW_TEXTURED_QUADS} THEN NORMAL
    ELSE NORMAL

\* the message type a command was converted from
messageOf(cmd_type) ==
    CASE cmd_type = T_DRAW_TEXT -> DRAW_TEXT
      [] cmd_type = T_DRAW_TEXTURED_QUADS -> DRAW_TEXTURED_QUADS
      [] cmd_type = T_CLEAR_LAYER -> CLEAR_LAYER
      [] OTHER -> DRAW_POINT

\* the commands queued for the render thread
queued == {m_commands[i] : i \in DOMAIN m_commands}
              \cup {m_high_priority_commands[i] :
                       i \in DOMAIN m_high_priority_commands}

\* C26: every queued command carries the priority assignPriority gives its
\* message type and layer: High on layer 0 and for ClearLayer and
\* ClearAllLayers, Normal otherwise.
C26_PriorityAssigned ==
    \A c \in queued : c.priority = assignPriority(messageOf(c.type), c.layer_id)

-----------------------------------------------------------------------------
(* The receive pump of one session fed by a peer's byte stream *)

PeerFrame(type, sequence) ==
    IF type = DRAW_POINT
    THEN [header |-> createHeader(DRAW_POINT, 1, sequence, Len(DrawPointPayload), 1),
          data |-> DrawPointPayload]
    ELSE [header |-> createHeader(type, 1, sequence, 0, 1), data |-> <<>>]

FrameBytes(f) == createMessage(f.header, f.data)

RECURSIVE StreamBytes(_)
StreamBytes(frames) ==
    IF frames = <<>> THEN <<>>
    ELSE FrameBytes(Head(frames)) \o StreamBytes(Tail(frames))

PeerStreams ==
    { <<PeerFrame(t, 1)>> : t \in {DRAW_POINT, CLEAR_LAYER} }
    \cup { <<PeerFrame(t, 1), PeerFrame(u, 2)>> :
             t \in {DRAW_POINT, CLEAR_LAYER}, u \in {DRAW_POINT, CLEAR_LAYER} }

RecvInit ==
    /\ m_state = "CONNECTED"
    /\ m_socket = FD
    /\ m_receive_buffer = <<>>
    /\ m_receive_buffer_pos = 0
    /\ m_receive_capacity = DefaultBufferSize
    /\ m_parsed_messages = <<>>
    /\ sent \in PeerStreams
    /\ wire = StreamBytes(sent)
    /\ delivered = <<>>
    /\ reads = 0
    /\ QueueIdle
    /\ PipelineIdle
    /\ SessionIdle
    /\ LayersIdle
    /\ CodecIdle
    /\ BatchIdle
    /\ FrameIdle
    /\ ManagerIdle
    /\ AddressIdle
    /\ ServeIdle
    /\ AcceptIdle

ReceiveApply(r, n) ==
    /\ m_receive_buffer' = r.buf
    /\ m_receive_buffer_pos' = r.pos
    /\ m_receive_capacity' = r.cap
    /\ m_parsed_messages' = r.q
    /\ m_state' = r.state
    /\ delivered' = delivered \o r.messages
    /\ wire' = SubSeq(wire, n + 1, Len(wire))
    /\ UNCHANGED <<m_socket, sent>>
    /\ UNCHANGED exceptRecv

Receive(result, n) ==
    ReceiveApply(receiveMessages(m_receive_buffer, m_receive_buffer_pos,
                                 m_receive_capacity, m_parsed_messages,
                                 m_state, m_socket, result, SubSeq(wire, 1, n)),
                 n)

\* recv() returns n > 0 bytes of the stream
ReceiveData ==
    /\ isConnected(m_state)
    /\ reads < MaxReads
    /\ \E n \in 1..Min(Len(wire), m_receive_capacity - Len(m_receive_buffer)) :
          Receive("data", n)
    /\ reads' = reads + 1

\* recv() finds nothing to read (EAGAIN / EWOULDBLOCK)
ReceiveWouldBlock ==
    /\ isConnected(m_state)
    /\ wire = <<>>
    /\ Receive("eagain", 0)
    /\ UNCHANGED reads

\* recv() returns 0: the peer closed after writing its stream
ReceivePeerClosed ==
    /\ isConnected(m_state)
    /\ wire = <<>>
    /\ Receive("eof", 0)
    /\ UNCHANGED reads

\* recv() fails with a hard error
ReceiveFailed ==
    /\ isConnected(m_state)
    /\ Receive("error", 0)
    /\ UNCHANGED reads

RecvNext == ReceiveData \/ ReceiveWouldBlock \/ ReceivePeerClosed \/ ReceiveFailed

SpecRecv == RecvInit /\ [][RecvNext]_vars

\* total length in bytes of a sequence of frames
RECURSIVE FramesLen(_)
FramesLen(frames) ==
    IF frames = <<>> THEN 0
    ELSE HeaderSize + Len(Head(frames).data) + FramesLen(Tail(frames))

IsPrefix(s, t) == Len(s) <= Len(t) /\ SubSeq(t, 1, Len(s)) = s

\* C1: however the stream is split into reads, the messages the receive pump
\* has returned are a prefix of the frames the peer wrote (unchanged, once
\* each, in stream order), none is returned before all its 32 + data_size
\* bytes were read, and once every byte was read every frame was returned.
C1_SplitFramesDelivered ==
    /\ IsPrefix(delivered, sent)
    /\ FramesLen(delivered) <= FramesLen(sent) - Len(wire)
    /\ (wire = <<>> => delivered = sent)

-----------------------------------------------------------------------------
(* One session among the server's threads: the accept thread runs           *)
(* handleNewClient, each network thread runs processClientMessages on the   *)
(* clients it picked, the main thread broadcasts and disconnects. After the *)
(* Client is in m_clients a step is one access to its shared state.         *)

NetworkThreads == {"net1", "net2"}
Threads == NetworkThreads \cup {"main"}

\* Capabilities (shared/include/Constants.hpp)
BASIC_RENDERING == 1
TEXT_RENDERING == 2
HIGH_DPI == 128
\* server_capabilities of createServerHello: the seven flags 0x01 .. 0x40
ServerCapabilities == 1 + 2 + 4 + 8 + 16 + 32 + 64

\* sizeof(ClientHello): client_name[64] and three uint32_t
ClientHelloSize == 76

\* the flags set in a capability word
CapabilityBits(n) == { b \in 0..30 : (n \div (2 ^ b)) % 2 = 1 }

\* the payload a client writes for a ClientHello with an empty name
ClientHelloBytes(client_version, requested_layers, capabilities) ==
    Zeros(64) \o LE(4, client_version) \o LE(4, requested_layers)
        \o LE(4, capabilities)

\* std::memcpy(&hello, data.data(), sizeof(ClientHello))
helloFromBytes(data) ==
    [client_version   |-> FromLE(SubSeq(data, 65, 68)),
     requested_layers |-> FromLE(SubSeq(data, 69, 72)),
     capabilities     |-> FromLE(SubSeq(data, 73, 76))]

HelloFrame(capabilities) ==
    [header |-> createHeader(CLIENT_HELLO, 0, 1, ClientHelloSize, 0),
     data |-> ClientHelloBytes(PROTOCOL_VERSION, 1, capabilities)]

\* capability words a client asks for: within the server's set, and with a
\* flag the server does not offer
HelloCapabilities == {BASIC_RENDERING + TEXT_RENDERING, BASIC_RENDERING + HIGH_DPI}

\* what a peer writes during one session
PeerSessions ==
    { <<HelloFrame(c)>> : c \in HelloCapabilities }
    \cup { <<HelloFrame(c), PeerFrame(t, 2)>> :
             c \in HelloCapabilities, t \in {DRAW_POINT, DISCONNECT} }
    \cup { <<PeerFrame(DRAW_POINT, 1), HelloFrame(c)>> : c \in HelloCapabilities }

\* Client::sendMessage with sendRawData as one call, send() doing `result`
sendMessage(state, socket, out, type, result) ==
    IF ~isConnected(state) \/ socket = -1
    THEN [ok |-> FALSE, state |-> state, tx |-> out]
    ELSE CASE result = "ok" ->
                [ok |-> TRUE, state |-> state, tx |-> out \cup {type}]
           [] result = "eof" ->
                [ok |-> FALSE, state |-> "DISCONNECTED", tx |-> out]
           [] OTHER ->
                [ok |-> FALSE, state |-> "ERROR", tx |-> out]

performHandshake(state) ==
    IF state # "HANDSHAKE" THEN state ELSE "CONNECTED"

\* handleClientHello after sendMessage returned r
helloAnswered(r) ==
    IF ~r.ok THEN [state |-> r.state, tx |-> r.tx]
    ELSE [state |-> performHandshake(r.state), tx |-> r.tx]

\* NetworkManager::handleClientHello: the ClientHello itself is only logged
handleClientHello(state, socket, out, result) ==
    helloAnswered(sendMessage(state, socket, out, SERVER_HELLO, result))

\* the message handleClientHandshake stops at, 0 if there is none
firstHello(messages) ==
    IF \E i \in 1..Len(messages) :
           /\ messages[i].header.type = CLIENT_HELLO
           /\ Len(messages[i].data) = ClientHelloSize
    THEN CHOOSE i \in 1..Len(messages) :
           /\ messages[i].header.type = CLIENT_HELLO
           /\ Len(messages[i].data) = ClientHelloSize
           /\ \A j \in 1..(i - 1) :
                  ~(/\ messages[j].header.type = CLIENT_HELLO
                    /\ Len(messages[j].data) = ClientHelloSize)
    ELSE 0

SessionInit ==
    /\ m_state = "CONNECTING"
    /\ m_socket = FD
    /\ m_receive_buffer = <<>>
    /\ m_receive_buffer_pos = 0
    /\ m_receive_capacity = DefaultBufferSize
    /\ m_parsed_messages = <<>>
    /\ wire = <<>>
    /\ sent = <<>>
    /\ delivered = <<>>
    /\ reads = 0
    /\ pc = [t \in Threads \cup {"accept"} |->
                IF t = "accept" THEN "accepted" ELSE "idle"]
    /\ socket_open = TRUE
    /\ m_send_mutex = "free"
    /\ m_receive_mutex = "free"
    /\ peer \in PeerSessions
    /\ tx = {}
    /\ hello = <<>>
    /\ registered = FALSE
    /\ QueueIdle
    /\ PipelineIdle
    /\ LayersIdle
    /\ CodecIdle
    /\ BatchIdle
    /\ FrameIdle
    /\ ManagerIdle
    /\ AddressIdle
    /\ ServeIdle
    /\ AcceptIdle

rbuf == <<m_receive_buffer, m_receive_buffer_pos, m_receive_capacity,
          m_parsed_messages>>

Goto(t, label) == pc' = [pc EXCEPT ![t] = label]

\* the results recv()/send() can give on the descriptor as it now is
RecvResults ==
    IF ~socket_open THEN {"error"}
    ELSE {"eagain", "error"} \cup (IF peer = <<>> THEN {"eof"} ELSE {"data"})

SendResults == IF ~socket_open THEN {"error"} ELSE {"ok", "eof", "error"}

\* handleNewClient up to the handshake: a client over the limit, or whose
\* socket cannot be configured, is dropped (disconnect, also run by ~Client)
HandleNewClient ==
    /\ pc["accept"] = "accepted"
    /\ \E rejected \in BOOLEAN :
          IF rejected
          THEN /\ m_state' = "DISCONNECTED"
               /\ m_socket' = -1
               /\ socket_open' = FALSE
               /\ Goto("accept", "done")
          ELSE /\ m_state' = "HANDSHAKE"
               /\ Goto("accept", "handshake")
               /\ UNCHANGED <<m_socket, socket_open>>
    /\ UNCHANGED <<rbuf, m_send_mutex, m_receive_mutex, peer, tx, hello,
                   registered>>
    /\ UNCHANGED exceptSession

\* the end of one round of handleClientHandshake that found a ClientHello:
\* a being what handleClientHello did; the handshake returns true and
\* handleNewClient puts the Client into m_clients
HelloApply(a, h) ==
    /\ m_state' = a.state
    /\ tx' = a.tx
    /\ hello' = h
    /\ registered' = TRUE
    /\ Goto("accept", "done")

\* one round of the loop of handleClientHandshake, r being what
\* receiveMessages returned after reading n frames
HandshakeApply(r, n, send_result) ==
    /\ m_receive_buffer' = r.buf
    /\ m_receive_buffer_pos' = r.pos
    /\ m_receive_capacity' = r.cap
    /\ m_parsed_messages' = r.q
    /\ peer' = SubSeq(peer, n + 1, Len(peer))
    /\ IF firstHello(r.messages) = 0
       THEN /\ m_state' = r.state
            /\ UNCHANGED <<tx, hello, registered, pc>>
       ELSE HelloApply(handleClientHello(r.state, m_socket, tx, send_result),
                       helloFromBytes(r.messages[firstHello(r.messages)].data))
    /\ UNCHANGED <<m_socket, socket_open, m_send_mutex, m_receive_mutex>>
    /\ UNCHANGED exceptSession

HandshakePoll ==
    /\ pc["accept"] = "handshake"
    /\ \E result \in RecvResults, send_result \in SendResults :
          HandshakeApply(
              receiveMessages(m_receive_buffer, m_receive_buffer_pos,
                  m_receive_capacity, m_parsed_messages, m_state, m_socket,
                  result,
                  IF result = "data" THEN FrameBytes(Head(peer)) ELSE <<>>),
              IF result = "data" /\ isConnected(m_state) THEN 1 ELSE 0,
              send_result)

\* handshake_timeout_seconds pass: handleClientHandshake returns false and
\* the last reference to the Client goes, whose destructor disconnects
HandshakeTimeout ==
    /\ pc["accept"] = "handshake"
    /\ IF m_socket # -1 /\ m_state # "DISCONNECTED"
       THEN /\ m_state' = "DISCONNECTED"
            /\ m_socket' = -1
            /\ socket_open' = FALSE
       ELSE UNCHANGED <<m_state, m_socket, socket_open>>
    /\ Goto("accept", "done")
    /\ UNCHANGED <<rbuf, m_send_mutex, m_receive_mutex, peer, tx, hello,
                   registered>>
    /\ UNCHANGED exceptSession

\* a step that only moves thread t
Jump(t, label) ==
    /\ Goto(t, label)
    /\ UNCHANGED <<m_state, m_socket, rbuf, socket_open, m_send_mutex,
                   m_receive_mutex, peer, tx, hello, registered>>
    /\ UNCHANGED exceptSession

\* networkThreadMain: copy the connected clients out of m_clients
NetPick(t) ==
    /\ t \in NetworkThreads
    /\ pc[t] = "idle"
    /\ registered /\ isConnected(m_state)
    /\ Jump(t, "process")

\* cleanupDisconnectedClients
NetCleanup(t) ==
    /\ t \in NetworkThreads
    /\ pc[t] = "idle"
    /\ registered /\ ~isConnected(m_state)
    /\ registered' = FALSE
    /\ UNCHANGED <<m_state, m_socket, rbuf, socket_open, m_send_mutex,
                   m_receive_mutex, peer, tx, hello, pc>>
    /\ UNCHANGED exceptSession

\* processClientMessages: timed out -> disconnect; ping due -> sendPing;
\* then receiveMessages (a pass that pings is followed by one that receives)
ProcessClientMessages(t) ==
    /\ pc[t] = "process"
    /\ IF ~isConnected(m_state)
       THEN Jump(t, "idle")
       ELSE \E label \in {"disc_check", "send_check", "recv_check"} :
                Jump(t, label)

\* NetworkManager::broadcastMessage (frame callbacks, input events)
MainBroadcast ==
    /\ pc["main"] = "idle"
    /\ registered /\ isConnected(m_state)
    /\ Jump("main", "send_check")

\* NetworkManager::disconnectClient and shutdown
MainDisconnect ==
    /\ pc["main"] = "idle"
    /\ registered
    /\ Jump("main", "disc_check")

\* sendMessage: if (!isConnected()) return false
SendCheck(t) ==
    /\ pc[t] = "send_check"
    /\ Jump(t, IF isConnected(m_state) THEN "send_lock" ELSE "idle")

\* std::lock_guard lock(m_send_mutex)
SendLock(t) ==
    /\ pc[t] = "send_lock"
    /\ m_send_mutex = "free"
    /\ m_send_mutex' = t
    /\ Goto(t, "send_raw")
    /\ UNCHANGED <<m_state, m_socket, rbuf, socket_open, m_receive_mutex,
                   peer, tx, hello, registered>>
    /\ UNCHANGED exceptSession

\* sendRawData: if (m_socket == -1) return false
SendRaw(t) ==
    /\ pc[t] = "send_raw"
    /\ IF m_socket = -1
       THEN m_send_mutex' = "free" /\ Goto(t, "idle")
       ELSE Goto(t, "send_call") /\ UNCHANGED m_send_mutex
    /\ UNCHANGED <<m_state, m_socket, rbuf, socket_open, m_receive_mutex,
                   peer, tx, hello, registered>>
    /\ UNCHANGED exceptSession

\* send(m_socket, ...): all written, 0, or an error other than EAGAIN (on
\* EAGAIN the loop sleeps and calls send again)
SendCall(t) ==
    /\ pc[t] = "send_call"
    /\ \E result \in SendResults :
          /\ m_state' = (CASE result = "ok" -> m_state
                           [] result = "eof" -> "DISCONNECTED"
                           [] OTHER -> "ERROR")
          /\ tx' = IF result = "ok"
                   THEN tx \cup {IF t = "main" THEN FRAME_CALLBACK ELSE PING}
                   ELSE tx
    /\ m_send_mutex' = "free"
    /\ Goto(t, "idle")
    /\ UNCHANGED <<m_socket, rbuf, socket_open, m_receive_mutex, peer, hello,
                   registered>>
    /\ UNCHANGED exceptSession

\* receiveMessages: if (!isConnected()) return false
RecvCheck(t) ==
    /\ pc[t] = "recv_check"
    /\ Jump(t, IF isConnected(m_state) THEN "recv_lock" ELSE "idle")

\* std::lock_guard lock(m_receive_mutex)
RecvLock(t) ==
    /\ pc[t] = "recv_lock"
    /\ m_receive_mutex = "free"
    /\ m_receive_mutex' = t
    /\ Goto(t, "recv_raw")
    /\ UNCHANGED <<m_state, m_socket, rbuf, socket_open, m_send_mutex,
                   peer, tx, hello, registered>>
    /\ UNCHANGED exceptSession

\* receiveRawData: if (m_socket == -1) return false
RecvRaw(t) ==
    /\ pc[t] = "recv_raw"
    /\ IF m_socket = -1
       THEN m_receive_mutex' = "free" /\ Goto(t, "idle")
       ELSE Goto(t, "recv_call") /\ UNCHANGED m_receive_mutex
    /\ UNCHANGED <<m_state, m_socket, rbuf, socket_open, m_send_mutex,
                   peer, tx, hello, registered>>
    /\ UNCHANGED exceptSession

\* a DISCONNECT among the messages processMessage is given
disconnectRequested(messages) ==
    \E i \in 1..Len(messages) :
        /\ validateMessage(messages[i].header, messages[i].data)
        /\ messages[i].header.type = DISCONNECT

\* the rest of receiveMessages and the loop over processMessage, r being
\* the outcome after reading n frames
RecvApply(t, r, n) ==
    /\ m_receive_buffer' = r.buf
    /\ m_receive_buffer_pos' = r.pos
    /\ m_receive_capacity' = r.cap
    /\ m_parsed_messages' = r.q
    /\ m_state' = r.state
    /\ peer' = SubSeq(peer, n + 1, Len(peer))
    /\ m_receive_mutex' = "free"
    /\ Goto(t, IF disconnectRequested(r.messages) THEN "disc_check" ELSE "idle")
    /\ UNCHANGED <<m_socket, socket_open, m_send_mutex, tx, hello, registered>>
    /\ UNCHANGED exceptSession

\* recv(m_socket, ...) and what follows it under the receive mutex
RecvCall(t) ==
    /\ pc[t] = "recv_call"
    /\ \E result \in RecvResults :
          RecvApply(t,
              parseReceived(
                  recvOutcome(
                      ensureReceiveBufferSpace(m_receive_buffer,
                          m_receive_buffer_pos, m_receive_capacity, MinRecvSpace),
                      m_state, result,
                      IF result = "data" THEN FrameBytes(Head(peer)) ELSE <<>>),
                  m_parsed_messages),
              IF result = "data" THEN 1 ELSE 0)

\* disconnect: if (m_state.load() == State::DISCONNECTED) return
DisconnectCheck(t) ==
    /\ pc[t] = "disc_check"
    /\ Jump(t, IF m_state = "DISCONNECTED" THEN "idle" ELSE "disc_mark")

\* setState(State::DISCONNECTING)
DisconnectMark(t) ==
    /\ pc[t] = "disc_mark"
    /\ m_state' = "DISCONNECTING"
    /\ Goto(t, "disc_close")
    /\ UNCHANGED <<m_socket, rbuf, socket_open, m_send_mutex, m_receive_mutex,
                   peer, tx, hello, registered>>
    /\ UNCHANGED exceptSession

\* if (m_socket != -1) close(m_socket)
DisconnectClose(t) ==
    /\ pc[t] = "disc_close"
    /\ IF m_socket # -1
       THEN socket_open' = FALSE /\ Goto(t, "disc_clear")
       ELSE Goto(t, "disc_end") /\ UNCHANGED socket_open
    /\ UNCHANGED <<m_state, m_socket, rbuf, m_send_mutex, m_receive_mutex,
                   peer, tx, hello, registered>>
    /\ UNCHANGED exceptSession

\* m_socket = -1
DisconnectClear(t) ==
    /\ pc[t] = "disc_clear"
    /\ m_socket' = -1
    /\ Goto(t, "disc_end")
    /\ UNCHANGED <<m_state, rbuf, socket_open, m_send_mutex, m_receive_mutex,
                   peer, tx, hello, registered>>
    /\ UNCHANGED exceptSession

\* setState(State::DISCONNECTED)
DisconnectEnd(t) ==
    /\ pc[t] = "disc_end"
    /\ m_state' = "DISCONNECTED"
    /\ Goto(t, "idle")
    /\ UNCHANGED <<m_socket, rbuf, socket_open, m_send_mutex, m_receive_mutex,
                   peer, tx, hello, registered>>
    /\ UNCHANGED exceptSession

SessionNext ==
    \/ HandleNewClient
    \/ HandshakePoll
    \/ HandshakeTimeout
    \/ MainBroadcast
    \/ MainDisconnect
    \/ \E t \in Threads :
          \/ NetPick(t)
          \/ NetCleanup(t)
          \/ ProcessClientMessages(t)
          \/ SendCheck(t)
          \/ SendLock(t)
          \/ SendRaw(t)
          \/ SendCall(t)
          \/ RecvCheck(t)
          \/ RecvLock(t)
          \/ RecvRaw(t)
          \/ RecvCall(t)
          \/ DisconnectCheck(t)
          \/ DisconnectMark(t)
          \/ DisconnectClose(t)
          \/ DisconnectClear(t)
          \/ DisconnectEnd(t)

SpecSession == SessionInit /\ [][SessionNext]_vars

\* the network threads that are inside processClientMessages for the session
serving == {t \in NetworkThreads : pc[t] # "idle"}

\* C29: at no instant is more than one network thread running the timeout
\* check, the keep-alive or the receive pump and dispatch of the session.
C29_OneThreadPerSession == Cardinality(serving) <= 1

\* C3: a session becomes Connected only from Handshake, on a ClientHello
\* whose capabilities are a subset of the server's, and with a ServerHello
\* written to the peer; nothing else makes it Connected.
C3_ConnectedOnlyOnMatchingHello ==
    [][(m_state # "CONNECTED" /\ m_state' = "CONNECTED") =>
          /\ m_state = "HANDSHAKE"
          /\ hello' # <<>>
          /\ CapabilityBits(hello'.capabilities)
                 \subseteq CapabilityBits(ServerCapabilities)
          /\ SERVER_HELLO \in tx']_vars

\* C4: a session starts in Connecting; once Disconnected it never changes
\* state; once in Error it does not become Connecting, Handshake or
\* Connected, whatever threads receive, send, disconnect or time out.
C4_DisconnectedTerminalErrorSink ==
    /\ m_state = "CONNECTING"
    /\ [][/\ m_state = "DISCONNECTED" => m_state' = "DISCONNECTED"
          /\ m_state = "ERROR" =>
                 m_state' \notin {"CONNECTING", "HANDSHAKE", "CONNECTED"}]_vars

-----------------------------------------------------------------------------
(* Layer registry: KairosServer/src/Core/LayerManager.cpp. The age of a     *)
(* layer (now - last_modified) is kept as 0: at most 2 minutes, 1: more     *)
(* than 2 and at most 5, 2: more than 5.                                    *)

\* ids callers ask for: the valid ones and the first one past m_max_layers
LayerIds == 0..MaxLayers
ReapAge == 2

\* the Layer createLayer builds; it does not assign last_modified, so the
\* age the layer starts with is whatever the Layer type gives it
NewLayer(layer_id, age) ==
    [id |-> layer_id, visible |-> TRUE, z_order |-> layer_id, dirty |-> TRUE,
     object_count |-> 0, age |-> age, opacity |-> 1, blend_mode |-> "ALPHA"]

createLayer(layers, max_layers, layer_id, age) ==
    IF layer_id >= max_layers \/ layer_id \in DOMAIN layers
    THEN layers
    ELSE [l \in DOMAIN layers \cup {layer_id} |->
             IF l = layer_id THEN NewLayer(layer_id, age) ELSE layers[l]]

deleteLayer(layers, layer_id) ==
    IF layer_id = 0 \/ layer_id \notin DOMAIN layers
    THEN layers
    ELSE [l \in DOMAIN layers \ {layer_id} |-> layers[l]]

\* what clearLayer and clearAllLayers do to one layer
cleared(layer) ==
    [layer EXCEPT !.object_count = 0, !.dirty = TRUE, !.age = 0]

clearLayer(layers, layer_id) ==
    IF layer_id \notin DOMAIN layers THEN layers
    ELSE [layers EXCEPT ![layer_id] = cleared(@)]

clearAllLayers(layers) == [l \in DOMAIN layers |-> cleared(layers[l])]

\* optimizeLayers: every layer but 0 that is empty and idle for more than
\* five minutes goes
optimizeLayers(layers) ==
    [l \in { k \in DOMAIN layers :
               k = 0 \/ ~(layers[k].object_count = 0 /\ layers[k].age >= ReapAge) }
       |-> layers[l]]

\* clear() holds m_layers_mutex, empties the map and calls createLayer(0),
\* which locks m_layers_mutex again: locking a std::mutex the thread owns
\* is undefined. The thread may block for good ("deadlock"), the lock may
\* throw std::system_error ("throws"), or the lock may be taken once more
\* ("relocked") and layer 0 is built anew.
ClearOutcomes == {"deadlock", "throws", "relocked"}

clear(layers, max_layers, outcome, age) ==
    IF outcome = "relocked"
    THEN [layers |-> createLayer(<<>>, max_layers, 0, age), mutex |-> "free"]
    ELSE IF outcome = "throws"
    THEN [layers |-> <<>>, mutex |-> "free"]
    ELSE [layers |-> <<>>, mutex |-> "held"]

\* LayerManager(max_layers)
LayersInit ==
    /\ m_max_layers = MaxLayers
    /\ \E age \in {0, ReapAge} : m_layers = createLayer(<<>>, MaxLayers, 0, age)
    /\ m_needs_sort = FALSE
    /\ m_layers_mutex = "free"
    /\ drawn_layers = {}
    /\ render_order = <<>>
    /\ RecvIdle
    /\ QueueIdle
    /\ PipelineIdle
    /\ SessionIdle
    /\ CodecIdle
    /\ BatchIdle
    /\ FrameIdle
    /\ ManagerIdle
    /\ AddressIdle
    /\ ServeIdle
    /\ AcceptIdle

\* a registry step that changes the map only
LayersApply(layers) ==
    /\ m_layers' = layers
    /\ UNCHANGED <<m_max_layers, m_needs_sort, m_layers_mutex, drawn_layers,
                   render_order>>
    /\ UNCHANGED exceptLayers

\* createLayer and getOrCreateLayer
CreateLayer ==
    /\ m_layers_mutex = "free"
    /\ \E layer_id \in LayerIds, age \in {0, ReapAge} :
          LayersApply(createLayer(m_layers, m_max_layers, layer_id, age))

DeleteLayer ==
    /\ m_layers_mutex = "free"
    /\ \E layer_id \in LayerIds : LayersApply(deleteLayer(m_layers, layer_id))

SetLayerVisibility ==
    /\ m_layers_mutex = "free"
    /\ \E layer_id \in DOMAIN m_layers, visible \in BOOLEAN :
          LayersApply(
              IF m_layers[layer_id].visible # visible
              THEN [m_layers EXCEPT ![layer_id].visible = visible,
                                    ![layer_id].dirty = TRUE]
              ELSE m_layers)

\* opacities callers pass, in units of 1.0: below, at and above the range
Opacities == {-1, 0, 1, 2}

\* std::clamp(opacity, 0.0f, 1.0f)
clampOpacity(opacity) == Max(0, Min(opacity, 1))

BlendModes == {"ALPHA", "ADDITIVE"}

SetLayerOpacity ==
    /\ m_layers_mutex = "free"
    /\ \E layer_id \in DOMAIN m_layers, opacity \in Opacities :
          LayersApply(
              IF m_layers[layer_id].opacity # clampOpacity(opacity)
              THEN [m_layers EXCEPT ![layer_id].opacity = clampOpacity(opacity),
                                    ![layer_id].dirty = TRUE]
              ELSE m_layers)

SetLayerBlendMode ==
    /\ m_layers_mutex = "free"
    /\ \E layer_id \in DOMAIN m_layers, blend_mode \in BlendModes :
          LayersApply(
              IF m_layers[layer_id].blend_mode # blend_mode
              THEN [m_layers EXCEPT ![layer_id].blend_mode = blend_mode,
                                    ![layer_id].dirty = TRUE]
              ELSE m_layers)

\* setLayerZOrder: the layer is not marked dirty
SetLayerZOrder ==
    /\ m_layers_mutex = "free"
    /\ \E layer_id \in DOMAIN m_layers, z_order \in LayerIds :
          IF m_layers[layer_id].z_order # z_order
          THEN /\ m_layers' = [m_layers EXCEPT ![layer_id].z_order = z_order]
               /\ m_needs_sort' = TRUE
          ELSE UNCHANGED <<m_layers, m_needs_sort>>
    /\ UNCHANGED <<m_max_layers, m_layers_mutex, drawn_layers,
                   render_order>>
    /\ UNCHANGED exceptLayers

ClearLayer ==
    /\ m_layers_mutex = "free"
    /\ \E layer_id \in LayerIds : LayersApply(clearLayer(m_layers, layer_id))

ClearAllLayers ==
    /\ m_layers_mutex = "free"
    /\ LayersApply(clearAllLayers(m_layers))

MarkLayerDirty ==
    /\ m_layers_mutex = "free"
    /\ \E layer_id \in DOMAIN m_layers :
          LayersApply([m_layers EXCEPT ![layer_id].dirty = TRUE,
                                       ![layer_id].age = 0])

MarkLayerClean ==
    /\ m_layers_mutex = "free"
    /\ \E layer_id \in DOMAIN m_layers :
          LayersApply([m_layers EXCEPT ![layer_id].dirty = FALSE])

UpdateLayerStats ==
    /\ m_layers_mutex = "free"
    /\ \E layer_id \in DOMAIN m_layers, object_count \in {0, 1} :
          LayersApply([m_layers EXCEPT ![layer_id].object_count = object_count,
                                       ![layer_id].age = 0])

OptimizeLayers ==
    /\ m_layers_mutex = "free"
    /\ LayersApply(optimizeLayers(m_layers))

RegistryClearApply(r) ==
    /\ m_layers' = r.layers
    /\ m_layers_mutex' = r.mutex
    /\ UNCHANGED <<m_max_layers, m_needs_sort, drawn_layers, render_order>>
    /\ UNCHANGED exceptLayers

\* void clear(), also run by ~LayerManager
ClearRegistry ==
    /\ m_layers_mutex = "free"
    /\ \E outcome \in ClearOutcomes, age \in {0, ReapAge} :
          RegistryClearApply(clear(m_layers, m_max_layers, outcome, age))

\* LayerManager::markLayerDirty: getLayer, and nothing when it finds none
markLayerDirty(layers, layer_id) ==
    IF layer_id \in DOMAIN layers
    THEN [layers EXCEPT ![layer_id].dirty = TRUE, ![layer_id].age = 0]
    ELSE layers

\* CommandProcessor::processLayerCommands for a non-empty group of one
\* frame: the layer is marked dirty, then every command of the group is
\* drawn by the renderer, which takes the layer id as it comes
ProcessLayerCommands ==
    /\ m_layers_mutex = "free"
    /\ \E layer_id \in LayerIds :
          /\ m_layers' = markLayerDirty(m_layers, layer_id)
          /\ drawn_layers' = drawn_layers \cup {layer_id}
    /\ UNCHANGED <<m_max_layers, m_needs_sort, m_layers_mutex, render_order>>
    /\ UNCHANGED exceptLayers

\* time passes: every layer grows older
Tick ==
    /\ m_layers_mutex = "free"
    /\ \E l \in DOMAIN m_layers : m_layers[l].age < ReapAge
    /\ LayersApply([l \in DOMAIN m_layers |->
                      [m_layers[l] EXCEPT !.age = Min(@ + 1, ReapAge)]])

\* the visible layers, in the order the traversal of m_layers meets them
visibleLayers(layers) == {l \in DOMAIN layers : layers[l].visible}

\* what std::sort with the comparator a->z_order < b->z_order may return
\* for the visible layers: every arrangement of them in which no layer
\* comes before one of smaller z_order. Layers of equal z_order are
\* equivalent to the comparator, std::sort is not stable, and the order in
\* which m_layers is traversed is the container's.
sortedByZOrder(layers) ==
    {s \in [1..Cardinality(visibleLayers(layers)) -> visibleLayers(layers)] :
        /\ \A i, j \in DOMAIN s : i # j => s[i] # s[j]
        /\ \A i, j \in DOMAIN s :
              i < j => layers[s[i]].z_order <= layers[s[j]].z_order}

\* getLayersInRenderOrder: the result, and m_needs_sort once the sort ran
GetLayersInRenderOrder ==
    /\ m_layers_mutex = "free"
    /\ \E s \in sortedByZOrder(m_layers) : render_order' = s
    /\ m_needs_sort' = IF m_needs_sort \/ Cardinality(visibleLayers(m_layers)) > 1
                       THEN FALSE ELSE m_needs_sort
    /\ UNCHANGED <<m_layers, m_max_layers, m_layers_mutex, drawn_layers>>
    /\ UNCHANGED exceptLayers

LayersNext ==
    \/ CreateLayer
    \/ DeleteLayer
    \/ SetLayerVisibility
    \/ SetLayerZOrder
    \/ ClearLayer
    \/ ClearAllLayers
    \/ MarkLayerDirty
    \/ MarkLayerClean
    \/ UpdateLayerStats
    \/ OptimizeLayers
    \/ ClearRegistry
    \/ ProcessLayerCommands
    \/ Tick

SpecLayers == LayersInit /\ [][LayersNext]_vars

\* the attribute setters and the traversal that reads what they set
OrderNext ==
    \/ CreateLayer
    \/ SetLayerVisibility
    \/ SetLayerOpacity
    \/ SetLayerBlendMode
    \/ SetLayerZOrder
    \/ MarkLayerClean
    \/ GetLayersInRenderOrder

SpecOrder == LayersInit /\ [][OrderNext]_vars

\* C39: every call of clear() comes back, the mutex released, with exactly
\* layer 0 in the registry; the caller never waits for the lock it holds.
C39_ClearReturnsLayerZero ==
    [][ClearRegistry =>
          /\ m_layers_mutex' = "free"
          /\ DOMAIN m_layers' = {0}]_vars

\* C36: a step that changes a layer's visibility, opacity, blend mode or
\* z-order leaves that layer dirty, and a step that changes a z-order
\* leaves the sort requested for the next render-order traversal.
C36_ChangeMarksDirty ==
    [][\A l \in DOMAIN m_layers \cap DOMAIN m_layers' :
          /\ (\/ m_layers'[l].visible # m_layers[l].visible
               \/ m_layers'[l].opacity # m_layers[l].opacity
               \/ m_layers'[l].blend_mode # m_layers[l].blend_mode
               \/ m_layers'[l].z_order # m_layers[l].z_order)
                 => m_layers'[l].dirty
          /\ m_layers'[l].z_order # m_layers[l].z_order => m_needs_sort']_vars

\* C31: what the render-order traversal returns is exactly the visible
\* layers, ascending by z-order, and by layer id where z-orders are equal.
C31_RenderOrderSorted ==
    [][render_order' # render_order =>
          /\ \A l \in DOMAIN m_layers :
                m_layers[l].visible <=>
                    \E i \in DOMAIN render_order' : render_order'[i] = l
          /\ \A i, j \in DOMAIN render_order' :
                i < j =>
                    \/ m_layers[render_order'[i]].z_order
                          < m_layers[render_order'[j]].z_order
                    \/ /\ m_layers[render_order'[i]].z_order
                             = m_layers[render_order'[j]].z_order
                       /\ render_order'[i] < render_order'[j]]_vars

\* C10: layer 0 is in the registry at every moment after construction;
\* delete, clear layer, clear all layers, registry clear and optimize all
\* leave it there.
C10_LayerZeroExists == 0 \in DOMAIN m_layers

\* C30: the first command that refers to a layer absent from the registry
\* creates it: when commands for such a layer are processed and drawn, the
\* layer is in the registry afterwards.
C30_AbsentLayerCreated ==
    [][\A layer_id \in drawn_layers' \ drawn_layers :
          layer_id \notin DOMAIN m_layers => layer_id \in DOMAIN m_layers']_vars

-----------------------------------------------------------------------------
(* Wire codec, one message at a time: a sender builds a header and a        *)
(* payload, createMessage writes them, parseMessages reads them back and    *)
(* validateHeader judges the header.                                        *)

\* enum class MessageType (shared/include/Protocol.hpp)
MessageTypes ==
    {1, 2} \cup (16..26) \cup (32..39) \cup {48, 49, 50} \cup (64..68)
        \cup {80, 81} \cup {240, 241, 254, 255}

\* bytes that are no MessageType: below, between and above the known ones
OtherTypes == {0, 3, 27, 96, 253}

Payloads == {<<>>, <<7>>, <<1, 2, 3, 255>>}

\* headers of well-formed messages: every known tag, fields whose bytes differ
WellFormedHeaders(data) ==
    { [magic |-> MAGIC, protocol_version |-> PROTOCOL_VERSION, type |-> ty,
       layer_id |-> l, reserved |-> 0, client_id |-> c, sequence |-> s,
       data_size |-> Len(data), timestamp |-> ts] :
        ty \in MessageTypes, l \in {0, 255}, c \in {1, 16909060},
        s \in {0, 2147483647}, ts \in {<<0, 0>>, <<16909060, 84281096>>} }

\* headers as a peer may write them: any magic, version, tag and size
AnyHeaders ==
    { [magic |-> mg, protocol_version |-> v, type |-> ty, layer_id |-> 0,
       reserved |-> 0, client_id |-> 1, sequence |-> 1, data_size |-> n,
       timestamp |-> <<0, 0>>] :
        mg \in {MAGIC, 0, MAGIC + 1}, v \in {PROTOCOL_VERSION, 0, 2},
        ty \in {DRAW_POINT, PING, DISCONNECT} \cup OtherTypes,
        n \in {0, MaxDataSize, MaxDataSize + 1} }

CodecInit ==
    /\ message \in
          UNION { { [header |-> h, data |-> d] : h \in WellFormedHeaders(d) } :
                    d \in Payloads }
          \cup { [header |-> h, data |-> <<>>] : h \in AnyHeaders }
    /\ encoded = <<>>
    /\ decoded = <<>>
    /\ verdict = <<>>
    /\ dispatched = <<>>
    /\ RecvIdle
    /\ QueueIdle
    /\ PipelineIdle
    /\ SessionIdle
    /\ LayersIdle
    /\ AcceptIdle
    /\ ServeIdle
    /\ AddressIdle
    /\ ManagerIdle
    /\ FrameIdle
    /\ BatchIdle

\* ProtocolHelper::validateHeader on the sender's header
ValidateHeader ==
    /\ verdict = <<>>
    /\ verdict' = <<validateHeader(message.header)>>
    /\ UNCHANGED <<message, encoded, decoded, dispatched>>
    /\ UNCHANGED exceptCodec

\* ProtocolHelper::createMessage; it reads header.data_size bytes of data
Encode ==
    /\ encoded = <<>>
    /\ message.header.data_size = Len(message.data)
    /\ encoded' = createMessage(message.header, message.data)
    /\ UNCHANGED <<message, decoded, verdict, dispatched>>
    /\ UNCHANGED exceptCodec

\* Client::parseMessages on a receive buffer that holds the encoded bytes
Decode ==
    /\ encoded # <<>>
    /\ decoded = <<>>
    /\ decoded' = parseMessages(encoded, 0, <<>>)
    /\ UNCHANGED <<message, encoded, verdict, dispatched>>
    /\ UNCHANGED exceptCodec

CodecNext ==
    \/ ValidateHeader
    \/ Encode
    \/ Decode

SpecCodec == CodecInit /\ [][CodecNext]_vars

\* C12: validateHeader rejects a header exactly when its magic or version is
\* wrong, its data_size exceeds 10 MiB or its tag is no known message type,
\* and accepts every other header.
C12_HeaderValidation ==
    verdict # <<>> =>
        verdict[1] = (/\ message.header.magic = MAGIC
                      /\ message.header.protocol_version = PROTOCOL_VERSION
                      /\ message.header.data_size <= MaxDataSize
                      /\ message.header.type \in MessageTypes)

\* C13: a well-formed message of any known tag comes back from
\* decode(encode(m)) with every header field and payload byte unchanged, and
\* its encoding is 32 + data_size bytes long.
C13_RoundTrip ==
    (/\ message.header.type \in MessageTypes
     /\ validateHeader(message.header)
     /\ message.header.data_size = Len(message.data)) =>
        /\ encoded # <<>> => Len(encoded) = 32 + message.header.data_size
        /\ decoded # <<>> =>
              /\ decoded.ok
              /\ decoded.q = <<message>>

C13_Witness ==
    /\ decoded # <<>>
    /\ message.header.type = DRAW_TEXT
    /\ message.data = <<1, 2, 3, 255>>
    /\ message.header.client_id = 16909060
    /\ message.header.timestamp = <<16909060, 84281096>>
    /\ decoded.q = <<message>>

-----------------------------------------------------------------------------
(* The accept thread: NetworkManager::acceptConnections hands every        *)
(* accepted connection to handleNewClient, which runs the handshake to its  *)
(* end before the next connection is looked at. The network threads mark    *)
(* and clean up sessions of m_clients meanwhile. The Client variables hold  *)
(* the Client handleNewClient is working on.                                *)

\* a peer either writes its ClientHello at once or writes nothing
PeerKinds == {"prompt", "silent"}

\* the addresses connections come from (inet_ntop of the peer's sin_addr)
Addresses == {"10.0.0.1", "10.0.0.2"}

\* sizes of a first recv() that returns less than what the peer wrote
HelloSplits == {1}

\* ProtocolHelper::createServerHello
createServerHello(id, server_version) ==
    [server_version |-> server_version, max_clients |-> 32,
     assigned_client_id |-> id, server_capabilities |-> ServerCapabilities,
     max_layers |-> 255]

\* NetworkManager::generateClientId: m_next_client_id.fetch_add(1) on an
\* unsigned counter of IdBits bits
generateClientId(next) == [id |-> next, next |-> (next + 1) % 2 ^ IdBits]

\* a limit test that lets one session too many in
tableFullLate(clients, max_clients) == Cardinality(DOMAIN clients) > max_clients

\* handleNewClient: m_clients.size() >= m_config.max_clients
tableFull(clients, max_clients) == Cardinality(DOMAIN clients) >= max_clients

\* Client::disconnect as one call
disconnect(state, socket) ==
    IF state = "DISCONNECTED" THEN [state |-> state, socket |-> socket]
    ELSE [state |-> "DISCONNECTED", socket |-> -1]

\* ~Client
destroyClient(state, socket) ==
    IF socket # -1 THEN disconnect(state, socket)
    ELSE [state |-> state, socket |-> socket]

AcceptInit ==
    /\ m_clients = <<>>
    /\ m_next_client_id = 1
    /\ accept_pc = "listening"
    /\ info_client_id = 0
    /\ rounds = 0
    /\ peer_kind = "silent"
    /\ transport_failed = FALSE
    /\ server_hello = <<>>
    /\ connected_callbacks = {}
    /\ arrivals = 0
    /\ handled = <<>>
    /\ RecvIdle
    /\ QueueIdle
    /\ PipelineIdle
    /\ SessionIdle
    /\ LayersIdle
    /\ CodecIdle
    /\ BatchIdle
    /\ FrameIdle
    /\ ManagerIdle
    /\ AddressIdle
    /\ ServeIdle

exceptArrival ==
    <<sent, delivered, reads, qvars, pvars, svars, lvars, cvars, nvars,
      mvars, fvars, bvars>>

exceptAccept == <<exceptArrival, ipvars>>

\* the Client object Client::createTcp / createUnix builds for a connection
\* whose peer is of the given kind and at the given address
NewClient(kind, address) ==
    /\ endpoint_address' = address
    /\ m_receive_buffer' = <<>>
    /\ m_receive_buffer_pos' = 0
    /\ m_receive_capacity' = DefaultBufferSize
    /\ m_parsed_messages' = <<>>
    /\ wire' = IF kind = "prompt"
               THEN FrameBytes(HelloFrame(BASIC_RENDERING + TEXT_RENDERING))
               ELSE <<>>
    /\ peer_kind' = kind
    /\ arrivals' = arrivals + 1
    /\ rounds' = 0
    /\ transport_failed' = FALSE
    /\ server_hello' = <<>>

\* what handleNewClient has come to for the connection it is handling
Outcome(outcome, id, state, kind, size, n, failed, sh) ==
    [outcome |-> outcome, client_id |-> id, state |-> state, kind |-> kind,
     table_size |-> size, rounds |-> n, transport_failed |-> failed,
     server_hello |-> sh]

\* handleNewClient up to the handshake loop, d being what disconnect does
\* to the new Client when it is turned away
NewClientApply(kind, address, configured, d) ==
    /\ NewClient(kind, address)
    /\ IF tableFull(m_clients, MaxClients)
       THEN /\ m_state' = d.state
            /\ m_socket' = d.socket
            /\ handled' = Outcome("rejected", 0, d.state, kind,
                                  Cardinality(DOMAIN m_clients), 0, FALSE, <<>>)
            /\ UNCHANGED <<m_next_client_id, info_client_id, accept_pc,
                           assigned_ids>>
       ELSE /\ m_next_client_id' = generateClientId(m_next_client_id).next
            /\ info_client_id' = generateClientId(m_next_client_id).id
            /\ assigned_ids' =
                  Append(assigned_ids, generateClientId(m_next_client_id).id)
            /\ IF configured
               THEN /\ m_state' = "HANDSHAKE"
                    /\ m_socket' = FD
                    /\ accept_pc' = "handshake"
                    /\ handled' = Outcome("pending", m_next_client_id,
                                          "HANDSHAKE", kind,
                                          Cardinality(DOMAIN m_clients), 0,
                                          FALSE, <<>>)
               ELSE /\ m_state' = d.state
                    /\ m_socket' = d.socket
                    /\ accept_pc' = "listening"
                    /\ handled' = Outcome("failed_init", m_next_client_id,
                                          d.state, kind,
                                          Cardinality(DOMAIN m_clients), 0,
                                          FALSE, <<>>)
    /\ UNCHANGED <<m_clients, connected_callbacks, client_addresses>>
    /\ UNCHANGED exceptArrival

\* NetworkManager::handleNewClient for the next accepted connection
AcceptClient ==
    /\ accept_pc = "listening"
    /\ arrivals < MaxConnections
    /\ \E kind \in PeerKinds, address \in Addresses, configured \in BOOLEAN :
          NewClientApply(kind, address, configured,
                         disconnect("CONNECTING", FD))

\* the round found a ClientHello: a is what handleClientHello did, the
\* handshake returns true and handleNewClient stores the Client and calls
\* m_client_connected_callback
RegisterApply(a, failed) ==
    /\ m_state' = a.state
    /\ server_hello' = IF SERVER_HELLO \in a.tx
                       THEN createServerHello(info_client_id, PROTOCOL_VERSION)
                       ELSE <<>>
    /\ transport_failed' = failed
    /\ m_clients' = [c \in DOMAIN m_clients \cup {info_client_id} |->
                        IF c = info_client_id THEN a.state ELSE m_clients[c]]
    /\ client_addresses' =
          [c \in DOMAIN client_addresses \cup {info_client_id} |->
              IF c = info_client_id THEN endpoint_address
              ELSE client_addresses[c]]
    /\ connected_callbacks' = connected_callbacks \cup {info_client_id}
    /\ accept_pc' = "listening"
    /\ handled' = [handled EXCEPT !.outcome = "registered", !.state = a.state,
                       !.rounds = rounds + 1, !.transport_failed = failed,
                       !.server_hello = server_hello']
    /\ UNCHANGED rounds

\* one round of the loop of handleClientHandshake: r is what
\* receiveMessages returned, n the bytes recv() took off the wire
RoundApply(r, n, result, send_result) ==
    /\ m_receive_buffer' = r.buf
    /\ m_receive_buffer_pos' = r.pos
    /\ m_receive_capacity' = r.cap
    /\ m_parsed_messages' = r.q
    /\ wire' = SubSeq(wire, n + 1, Len(wire))
    /\ IF firstHello(r.messages) # 0
       THEN RegisterApply(handleClientHello(r.state, m_socket, {}, send_result),
                          transport_failed \/ send_result # "ok")
       ELSE /\ m_state' = r.state
            /\ rounds' = rounds + 1
            /\ transport_failed' = (transport_failed \/ result = "eof")
            /\ handled' = [handled EXCEPT !.state = r.state,
                               !.rounds = rounds + 1,
                               !.transport_failed = transport_failed']
            /\ UNCHANGED <<server_hello, m_clients, connected_callbacks,
                           client_addresses,
                           accept_pc>>
    /\ UNCHANGED <<m_socket, m_next_client_id, info_client_id, peer_kind,
                   arrivals>>
    /\ UNCHANGED <<endpoint_address, assigned_ids>>
    /\ UNCHANGED exceptArrival

\* what recv() can return in a round: nothing is read unless the Client
\* still counts as connected, and what the peer wrote arrives in at most
\* two pieces, so that HandshakeRounds rounds are enough to read it
RoundReads ==
    IF ~isConnected(m_state) THEN {[result |-> "eagain", chunk |-> <<>>]}
    ELSE IF wire = <<>>
    THEN {[result |-> "eagain", chunk |-> <<>>],
          [result |-> "eof", chunk |-> <<>>]}
    ELSE {[result |-> "data", chunk |-> wire]}
         \cup {[result |-> "data", chunk |-> SubSeq(wire, 1, k)] :
                 k \in {s \in HelloSplits :
                           s < Len(wire) /\ m_receive_buffer = <<>>}}

HandshakeRound ==
    /\ accept_pc = "handshake"
    /\ rounds < HandshakeRounds
    /\ \E rd \in RoundReads, send_result \in {"ok", "error"} :
          RoundApply(receiveMessages(m_receive_buffer, m_receive_buffer_pos,
                         m_receive_capacity, m_parsed_messages, m_state,
                         m_socket, rd.result, rd.chunk),
                     Len(rd.chunk), rd.result, send_result)

\* the loop ran out of time: handleClientHandshake returns false,
\* handleNewClient returns and the Client is destroyed (d)
ExpireApply(d) ==
    /\ m_state' = d.state
    /\ m_socket' = d.socket
    /\ accept_pc' = "listening"
    /\ handled' = [handled EXCEPT !.outcome = "timeout", !.state = d.state]
    /\ UNCHANGED <<m_receive_buffer, m_receive_buffer_pos, m_receive_capacity,
                   m_parsed_messages, wire, m_clients, m_next_client_id,
                   info_client_id, rounds, peer_kind, transport_failed,
                   server_hello, connected_callbacks, arrivals>>
    /\ UNCHANGED exceptAccept

HandshakeExpired ==
    /\ accept_pc = "handshake"
    /\ rounds >= HandshakeRounds
    /\ ExpireApply(destroyClient(m_state, m_socket))

\* the step of a network thread that leaves the accept thread's Client alone
TableApply(clients) ==
    /\ m_clients' = clients
    /\ UNCHANGED <<m_state, m_socket, m_receive_buffer, m_receive_buffer_pos,
                   m_receive_capacity, m_parsed_messages, wire,
                   m_next_client_id, accept_pc, info_client_id, rounds,
                   peer_kind, transport_failed, server_hello,
                   connected_callbacks, arrivals, handled>>
    /\ UNCHANGED exceptAccept

\* processClientMessages on a session whose peer has closed: recv() gives 0
PeerClosed ==
    /\ \E id \in DOMAIN m_clients : isConnected(m_clients[id])
    /\ \E id \in { c \in DOMAIN m_clients : isConnected(m_clients[c]) } :
          TableApply([m_clients EXCEPT ![id] = "DISCONNECTED"])

\* NetworkManager::cleanupDisconnectedClients
CleanupDisconnectedClients ==
    /\ \E id \in DOMAIN m_clients : ~isConnected(m_clients[id])
    /\ TableApply([c \in { k \in DOMAIN m_clients : isConnected(m_clients[k]) }
                      |-> m_clients[c]])

AcceptNext ==
    \/ AcceptClient
    \/ HandshakeRound
    \/ HandshakeExpired
    \/ PeerClosed
    \/ CleanupDisconnectedClients

SpecAccept == AcceptInit /\ [][AcceptNext]_vars

\* C14: a connection whose peer wrote a valid CLIENT_HELLO at once, and
\* whose transport did not fail, ends the handshake registered and
\* Connected, with a SERVER_HELLO of server_version 1, an assigned client id
\* of at least 1 and max_layers 255.
C14_HelloAnswered ==
    (/\ handled # <<>>
     /\ handled.outcome \in {"registered", "timeout"}
     /\ handled.kind = "prompt"
     /\ ~handled.transport_failed) =>
        /\ handled.outcome = "registered"
        /\ handled.state = "CONNECTED"
        /\ handled.server_hello # <<>>
        /\ handled.server_hello.server_version = 1
        /\ handled.server_hello.assigned_client_id >= 1
        /\ handled.server_hello.max_layers = 255

\* C15: a connection that has not reached Connected when handleNewClient is
\* done with it was never put into the session table and the
\* client-connected callback was never called for it.
C15_NoTableEntryWithoutHandshake ==
    (/\ handled # <<>>
     /\ handled.outcome # "pending"
     /\ handled.state # "CONNECTED") =>
        /\ handled.outcome # "registered"
        /\ handled.client_id \notin connected_callbacks

\* C20: the session table never holds more than max_clients sessions, and a
\* connection that arrives while it holds max_clients is turned away at
\* once: disconnected, given no id and no handshake round.
C20_SessionLimit ==
    /\ Cardinality(DOMAIN m_clients) <= MaxClients
    /\ (handled # <<>> /\ handled.table_size >= MaxClients) =>
           /\ handled.outcome = "rejected"
           /\ handled.state = "DISCONNECTED"
           /\ handled.rounds = 0
           /\ handled.client_id = 0

C20_Witness ==
    /\ handled # <<>>
    /\ handled.outcome = "rejected"
    /\ Cardinality(DOMAIN m_clients) = MaxClients
    /\ arrivals = MaxConnections

\* the sessions of the table whose peer is at the address
sessionsFrom(address) ==
    {c \in DOMAIN m_clients : client_addresses[c] = address}

\* C21: the session table never holds more than max_connections_per_ip
\* sessions from one peer address (so a connection from an address that
\* already has that many was turned away).
C21_PerAddressLimit ==
    \A address \in Addresses :
        Cardinality(sessionsFrom(address)) <= MaxConnectionsPerIp

\* C28: no two of the ids given to sessions, concurrent or successive, are
\* the same.
C28_UniqueClientIds ==
    \A i \in DOMAIN assigned_ids, j \in DOMAIN assigned_ids :
        i # j => assigned_ids[i] # assigned_ids[j]

-----------------------------------------------------------------------------
(* One registered, Connected session (id 1) served by a network thread:     *)
(* NetworkManager::networkThreadMain calls processClientMessages for it and *)
(* then cleanupDisconnectedClients. The peer writes frames, may stop        *)
(* reading, and the steady clock runs.                                      *)

ERROR_RESPONSE == 254

\* Client::isTimedOut
isTimedOut(state, t, last) == isConnected(state) /\ t - last > TimeoutSeconds

\* Client::needsPing with enable_keep_alive at its default (true)
needsPing(t, last_ping) == t - last_ping >= PingIntervalSeconds

\* a frame whose header fails validateHeader
MalformedFrame(sequence) ==
    [PeerFrame(DRAW_POINT, sequence) EXCEPT !.header.magic = 0]

\* the entry of m_clients for the served session
Table(state) == IF m_clients = <<>> THEN <<>> ELSE <<state>>

ServeInit ==
    /\ m_clients = <<"CONNECTED">>
    /\ m_next_client_id = 2
    /\ accept_pc = "listening"
    /\ info_client_id = 1
    /\ rounds = 0
    /\ peer_kind = "prompt"
    /\ transport_failed = FALSE
    /\ server_hello = createServerHello(1, PROTOCOL_VERSION)
    /\ connected_callbacks = {1}
    /\ arrivals = 1
    /\ handled = <<>>
    /\ m_state = "CONNECTED"
    /\ m_socket = FD
    /\ m_receive_buffer = <<>>
    /\ m_receive_buffer_pos = 0
    /\ m_receive_capacity = DefaultBufferSize
    /\ m_parsed_messages = <<>>
    /\ sent = <<>>
    /\ wire = <<>>
    /\ delivered = <<>>
    /\ reads = 0
    /\ ServeIdle
    /\ QueueIdle
    /\ PipelineIdle
    /\ SessionIdle
    /\ LayersIdle
    /\ CodecIdle
    /\ BatchIdle
    /\ FrameIdle
    /\ ManagerIdle
    /\ AddressIdle

exceptServe ==
    <<reads, qvars, pvars, svars, lvars, cvars, m_next_client_id, accept_pc,
      info_client_id, rounds, peer_kind, transport_failed, server_hello,
      connected_callbacks, arrivals, handled, ipvars,
      mvars, fvars, bvars>>

\* the peer writes one more frame
PeerWrites ==
    /\ Len(sent) < MaxWrites
    /\ m_socket # -1
    /\ \E f \in {PeerFrame(DRAW_POINT, Len(sent) + 1),
                 PeerFrame(DISCONNECT, Len(sent) + 1),
                 MalformedFrame(Len(sent) + 1)} :
          /\ sent' = Append(sent, f)
          /\ wire' = wire \o FrameBytes(f)
    /\ UNCHANGED <<m_state, m_socket, m_receive_buffer, m_receive_buffer_pos,
                   m_receive_capacity, m_parsed_messages, delivered, m_clients,
                   clock, last_activity, last_ping_sent, errors,
                   invalid_messages, forwarded, net_pc, last_send,
                   peer_reading, recv_fault, emitted>>
    /\ UNCHANGED exceptServe

\* the peer stops taking bytes off its socket
PeerStopsReading ==
    /\ peer_reading
    /\ m_socket # -1
    /\ peer_reading' = FALSE
    /\ UNCHANGED <<m_state, m_socket, m_receive_buffer, m_receive_buffer_pos,
                   m_receive_capacity, m_parsed_messages, sent, wire,
                   delivered, m_clients, clock, last_activity, last_ping_sent,
                   errors, invalid_messages, forwarded, net_pc, last_send,
                   recv_fault, emitted>>
    /\ UNCHANGED exceptServe

SecondPasses ==
    /\ clock < MaxClock
    /\ clock' = clock + 1
    /\ UNCHANGED <<m_state, m_socket, m_receive_buffer, m_receive_buffer_pos,
                   m_receive_capacity, m_parsed_messages, sent, wire,
                   delivered, m_clients, last_activity, last_ping_sent, errors,
                   invalid_messages, forwarded, net_pc, last_send,
                   peer_reading, recv_fault, emitted>>
    /\ UNCHANGED exceptServe

\* a step of the network thread that touches the Client's state, socket and
\* activity stamps only
ThreadApply(label, state, socket, activity, ping) ==
    /\ net_pc' = label
    /\ m_state' = state
    /\ m_socket' = socket
    /\ last_activity' = activity
    /\ last_ping_sent' = ping
    /\ m_clients' = Table(state)
    /\ UNCHANGED <<m_receive_buffer, m_receive_buffer_pos, m_receive_capacity,
                   m_parsed_messages, sent, wire, delivered, clock, errors,
                   invalid_messages, forwarded, peer_reading, recv_fault>>
    /\ UNCHANGED exceptServe

\* networkThreadMain: collect the connected clients of m_clients
CollectClients ==
    /\ net_pc = "idle"
    /\ ThreadApply(IF m_clients # <<>> /\ isConnected(m_state)
                   THEN "process" ELSE "cleanup",
                   m_state, m_socket, last_activity, last_ping_sent)
    /\ UNCHANGED <<last_send, emitted>>

\* processClientMessages up to receiveMessages: the timeout test, and
\* sendPing as far as the first send() of sendRawData
ProcessClientTimeout ==
    /\ net_pc = "process"
    /\ IF ~isConnected(m_state)
       THEN ThreadApply("cleanup", m_state, m_socket, last_activity,
                        last_ping_sent)
       ELSE IF isTimedOut(m_state, clock, last_activity)
       THEN ThreadApply("cleanup", disconnect(m_state, m_socket).state,
                        disconnect(m_state, m_socket).socket, last_activity,
                        last_ping_sent)
       ELSE IF needsPing(clock, last_ping_sent)
       THEN ThreadApply("ping_send", m_state, m_socket, last_activity,
                        last_ping_sent)
       ELSE ThreadApply("receive", m_state, m_socket, last_activity,
                        last_ping_sent)
    /\ UNCHANGED <<last_send, emitted>>

\* what send() returns
SendOutcomes == IF peer_reading THEN {"ok", "eof", "error"} ELSE {"eagain"}

\* one iteration of the loop of sendRawData, called by sendMessage for the
\* PING with m_send_mutex held
PingSendRaw ==
    /\ net_pc = "ping_send"
    /\ \E result \in SendOutcomes :
          /\ last_send' = result
          /\ emitted' = IF result = "ok" THEN Append(emitted, PING)
                        ELSE emitted
          /\ CASE result = "ok" ->
                    ThreadApply("receive", m_state, m_socket, clock, clock)
               [] result = "eagain" ->
                    ThreadApply("ping_sleep", m_state, m_socket,
                                last_activity, last_ping_sent)
               [] result = "eof" ->
                    ThreadApply("receive", "DISCONNECTED", m_socket,
                                last_activity, last_ping_sent)
               [] OTHER ->
                    ThreadApply("receive", "ERROR", m_socket, last_activity,
                                last_ping_sent)

\* sendRawData after EAGAIN: sleep_for(1 ms) and continue
PingRetrySleep ==
    /\ net_pc = "ping_sleep"
    /\ ThreadApply("ping_send", m_state, m_socket, last_activity,
                   last_ping_sent)
    /\ UNCHANGED <<last_send, emitted>>

\* NetworkManager::processMessage for each message receiveMessages handed
\* back; a is the Client and the counters so far
RECURSIVE serveMessages(_, _)
serveMessage(msg, a) ==
    IF ~validateMessage(msg.header, msg.data)
    THEN [a EXCEPT !.invalid = @ + 1]
    ELSE IF msg.header.type = DISCONNECT
    THEN [a EXCEPT !.activity = clock,
                   !.state = disconnect(a.state, a.socket).state,
                   !.socket = disconnect(a.state, a.socket).socket]
    ELSE IF msg.header.type \in {PING, PONG}
    THEN [a EXCEPT !.activity = clock]
    ELSE [a EXCEPT !.activity = clock, !.forwarded = Append(@, clock)]

serveMessages(messages, a) ==
    IF messages = <<>> THEN a
    ELSE serveMessages(Tail(messages), serveMessage(Head(messages), a))

\* why receiveMessages returned false, r being what it returned
recvFault(r, result) ==
    IF r.ok THEN "none"
    ELSE IF r.state = "ERROR" /\ result = "data" THEN "malformed"
    ELSE IF r.state = "DISCONNECTED" THEN "closed"
    ELSE IF r.state = "ERROR" THEN "error"
    ELSE "overflow"

\* the rest of processClientMessages: r is what receiveMessages returned,
\* n the bytes recv() took, a what processMessage made of the messages
ServeReceiveApply(r, n, result, a) ==
    /\ m_receive_buffer' = r.buf
    /\ m_receive_buffer_pos' = r.pos
    /\ m_receive_capacity' = r.cap
    /\ m_parsed_messages' = r.q
    /\ wire' = SubSeq(wire, n + 1, Len(wire))
    /\ delivered' = delivered \o r.messages
    /\ recv_fault' = IF r.ok THEN recv_fault ELSE recvFault(r, result)
    /\ m_state' = a.state
    /\ m_socket' = a.socket
    /\ last_activity' = a.activity
    /\ forwarded' = a.forwarded
    /\ invalid_messages' = a.invalid
    /\ m_clients' = Table(a.state)
    /\ net_pc' = "cleanup"
    /\ UNCHANGED <<sent, clock, last_ping_sent, errors, last_send,
                   peer_reading, emitted>>
    /\ UNCHANGED exceptServe

\* what recv() can return to the served session
ServeReads ==
    IF ~isConnected(m_state) \/ m_socket = -1
    THEN {[result |-> "eagain", chunk |-> <<>>]}
    ELSE IF wire = <<>>
    THEN {[result |-> "eagain", chunk |-> <<>>],
          [result |-> "eof", chunk |-> <<>>]}
    ELSE {[result |-> "data", chunk |-> wire]}

ReceiveStep(r, n, result) ==
    ServeReceiveApply(r, n, result,
        serveMessages(r.messages,
            [state |-> r.state, socket |-> m_socket,
             activity |-> IF r.messages # <<>> THEN clock ELSE last_activity,
             forwarded |-> forwarded, invalid |-> invalid_messages]))

ProcessClientReceive ==
    /\ net_pc = "receive"
    /\ \E rd \in ServeReads :
          ReceiveStep(receiveMessages(m_receive_buffer, m_receive_buffer_pos,
                          m_receive_capacity, m_parsed_messages, m_state,
                          m_socket, rd.result, rd.chunk),
                      Len(rd.chunk), rd.result)

\* cleanupDisconnectedClients: the erased Client is destroyed (d)
CleanupApply(d) ==
    /\ net_pc' = "idle"
    /\ IF m_clients # <<>> /\ ~isConnected(m_state)
       THEN /\ m_clients' = <<>>
            /\ m_state' = d.state
            /\ m_socket' = d.socket
       ELSE UNCHANGED <<m_clients, m_state, m_socket>>
    /\ UNCHANGED <<m_receive_buffer, m_receive_buffer_pos, m_receive_capacity,
                   m_parsed_messages, sent, wire, delivered, clock,
                   last_activity, last_ping_sent, errors, invalid_messages,
                   forwarded, last_send, peer_reading, recv_fault, emitted>>
    /\ UNCHANGED exceptServe

CleanupServed ==
    /\ net_pc = "cleanup"
    /\ CleanupApply(destroyClient(m_state, m_socket))

ServeNext ==
    \/ PeerWrites
    \/ PeerStopsReading
    \/ SecondPasses
    \/ CollectClients
    \/ ProcessClientTimeout
    \/ PingSendRaw
    \/ PingRetrySleep
    \/ ProcessClientReceive
    \/ CleanupServed

SpecServe == ServeInit /\ [][ServeNext]_vars

\* the network thread is scheduled and the clock runs. The thread's receive
\* step is enabled exactly when net_pc = "receive", which is how its weak
\* fairness is written.
SpecServeFair ==
    /\ ServeInit
    /\ [][ServeNext]_vars
    /\ WF_vars(SecondPasses)
    /\ WF_vars(CollectClients)
    /\ WF_vars(ProcessClientTimeout)
    /\ WF_vars(PingSendRaw)
    /\ WF_vars(PingRetrySleep)
    /\ WF_vars(CleanupServed)
    /\ ([]<>(net_pc # "receive") \/ []<><<ProcessClientReceive>>_vars)

\* the command frames among the messages handed to processMessage
CommandsOf(messages) ==
    SelectSeq(messages, LAMBDA f : f.header.type \notin {PING, PONG, DISCONNECT})

\* C11: once the network thread is through with a pump in which a frame
\* failed header validation, the session's transport is closed, the
\* session's error counter reads one, only the commands of the frames
\* before the bad one were forwarded, and no ERROR_RESPONSE was written.
C11_MalformedFrameHandled ==
    (recv_fault = "malformed" /\ net_pc = "idle") =>
        /\ m_socket = -1
        /\ errors = 1
        /\ Len(forwarded) = Len(CommandsOf(delivered))
        /\ \A i \in DOMAIN emitted : emitted[i] # ERROR_RESPONSE

\* the session is in the table, Connected and idle for longer than the
\* client timeout
TimedOut ==
    /\ m_clients # <<>>
    /\ m_state = "CONNECTED"
    /\ clock - last_activity > TimeoutSeconds

\* C16: a Connected session idle for longer than the client timeout is
\* eventually out of the session table (or active again).
C16_TimedOutRemoved == TimedOut ~> (m_clients = <<>> \/ ~TimedOut)

\* C35: a send that fails hard drops the session to ERROR only as the fifth
\* (MAX_CONSECUTIVE_ERRORS) failure in a row and not after fewer; the first
\* hard failure after a send that did not fail hard is fewer than five, so
\* it leaves the session out of ERROR.
C35_FirstSendFailureTolerated ==
    [][(net_pc = "ping_send" /\ last_send # "error" /\ last_send' = "error")
          => m_state' # "ERROR"]_vars

\* the messages of a sequence that come before its first DISCONNECT
RECURSIVE beforeDisconnect(_)
beforeDisconnect(messages) ==
    IF messages = <<>> \/ Head(messages).header.type = DISCONNECT THEN <<>>
    ELSE <<Head(messages)>> \o beforeDisconnect(Tail(messages))

\* C37: commands reach the command callback only from messages received
\* while the session is Connected: of the messages the session delivered,
\* none that follows a DISCONNECT message is forwarded, in the same receive
\* batch or later.
C37_ForwardedOnlyWhileConnected ==
    Len(forwarded) <= Len(CommandsOf(beforeDisconnect(delivered)))

\* C38: a session's transport is closed exactly once; in particular a session
\* that left the session table, whichever way it came to Error or
\* Disconnected (peer close and transport failure included), has its
\* transport closed.
C38_TransportClosedWhenRemoved == (m_clients = <<>>) => m_socket = -1

\* C17: no more than RateCeiling commands of the session are forwarded
\* within one second.
C17_RateCeiling ==
    \A t \in 0..MaxClock :
        Cardinality({i \in DOMAIN forwarded : forwarded[i] = t}) <= RateCeiling

\* C19: a send() that reports EAGAIN ends the send: the network thread is
\* out of sendRawData after that step and goes on to the receive path.
C19_SendReturnsOnWouldBlock ==
    [][(net_pc = "ping_send" /\ last_send' = "eagain") => net_pc' = "receive"]_vars

-----------------------------------------------------------------------------------------------------------------------------------------------------
(* The receive buffer of a Connected session under a peer that keeps        *)
(* writing: every recv() fills the space receiveRawData offers, and what    *)
(* recv() stores begins with the header of a frame of FloodDataSize bytes,  *)
(* so that the buffered frame stays incomplete. Byte counts are divided by  *)
(* BufferScale.                                                             *)

\* the 64 KiB the constructor reserves and Config::receive_buffer_size
ScaledBufferSize == DefaultBufferSize \div BufferScale

\* the needed_space receiveRawData asks ensureReceiveBufferSpace for
ScaledRecvSpace == MinRecvSpace \div BufferScale

FloodHeader == createHeader(DRAW_TEXT, 1, 0, FloodDataSize, 1)

\* n bytes of the peer's stream
FloodBlock(n) == SubSeq(hostToNetwork(FloodHeader) \o Zeros(n), 1, n)

BufferInit ==
    /\ m_state = "CONNECTED"
    /\ m_socket = FD
    /\ m_receive_buffer = <<>>
    /\ m_receive_buffer_pos = 0
    /\ m_receive_capacity = ScaledBufferSize
    /\ m_parsed_messages = <<>>
    /\ sent = <<>>
    /\ wire = <<>>
    /\ delivered = <<>>
    /\ reads = 0
    /\ QueueIdle
    /\ PipelineIdle
    /\ SessionIdle
    /\ LayersIdle
    /\ CodecIdle
    /\ BatchIdle
    /\ FrameIdle
    /\ ManagerIdle
    /\ AddressIdle
    /\ AcceptIdle
    /\ ServeIdle

exceptBuffer ==
    <<m_socket, sent, wire, reads, qvars, pvars, svars, lvars, cvars, avars,
      clock, last_activity, last_ping_sent, errors, invalid_messages,
      forwarded, net_pc, last_send, peer_reading, emitted, ipvars,
      mvars, fvars, bvars>>

\* Client::receiveMessages returned r
BufferApply(r, result) ==
    /\ m_receive_buffer' = r.buf
    /\ m_receive_buffer_pos' = r.pos
    /\ m_receive_capacity' = r.cap
    /\ m_parsed_messages' = r.q
    /\ m_state' = r.state
    /\ delivered' = delivered \o r.messages
    /\ recv_fault' = IF r.ok THEN recv_fault ELSE recvFault(r, result)
    /\ UNCHANGED exceptBuffer

\* Client::receiveMessages of a Connected Client with an open socket, e
\* being what ensureReceiveBufferSpace returned to receiveRawData
PumpStep(e, result, chunk) ==
    BufferApply(parseReceived(recvOutcome(e, m_state, result, chunk),
                              m_parsed_messages),
                result)

\* a pump whose recv() is given as many bytes as there is room for
FloodPump ==
    /\ isConnected(m_state)
    /\ \E e \in {ensureBufferSpace(m_receive_buffer, m_receive_buffer_pos,
                     m_receive_capacity, ScaledRecvSpace, ScaledBufferSize)} :
          PumpStep(e, "data",
                   IF e.ok THEN FloodBlock(e.cap - Len(e.buf)) ELSE <<>>)

\* a pump whose recv() reports the end of the stream or an error
FailedPump ==
    /\ isConnected(m_state)
    /\ \E result \in {"eof", "error"} :
          PumpStep(ensureBufferSpace(m_receive_buffer, m_receive_buffer_pos,
                       m_receive_capacity, ScaledRecvSpace, ScaledBufferSize),
                   result, <<>>)

BufferNext ==
    \/ FloodPump
    \/ FailedPump

SpecBuffer == BufferInit /\ [][BufferNext]_vars

\* C18: the receive buffer holds and reserves no more than twice the
\* configured size, and a session whose incoming data was refused for want
\* of room within that limit is in Error.
C18_ReceiveBufferLimit ==
    /\ Len(m_receive_buffer) <= 2 * ScaledBufferSize
    /\ m_receive_capacity <= 2 * ScaledBufferSize
    /\ recv_fault = "overflow" => m_state = "ERROR"

-----------------------------------------------------------------------------
(* The NetworkManager between initialize() and the end of shutdown(): the   *)
(* accept thread, the network threads and the caller of shutdown(), over    *)
(* the Client objects. One call of processClientMessages is one step, and   *)
(* what the call meets (a timeout, a malformed frame, a closed or failed    *)
(* transport, a full buffer) is an input.                                   *)

Faults == {"none", "timeout", "malformed", "closed", "error", "overflow"}

\* Client::disconnect(reason) on a Client object
disconnectObject(o, reason) ==
    IF o.state = "DISCONNECTED" THEN o
    ELSE [state |-> disconnect(o.state, o.socket).state,
          socket |-> disconnect(o.state, o.socket).socket,
          reason |-> reason]

\* ~Client
destroyObject(o) ==
    IF o.socket # -1 THEN disconnectObject(o, "Client destroyed") ELSE o

\* what ensureReceiveBufferSpace returns to receiveRawData under fault
faultSpace(fault) ==
    [ok |-> fault # "overflow", buf |-> <<>>, pos |-> 0, cap |-> MinRecvSpace]

\* what recv() returns under fault
faultResult(fault) ==
    CASE fault = "closed" -> "eof"
      [] fault = "error" -> "error"
      [] OTHER -> "eagain"

\* the state Client::receiveMessages leaves under fault
pumpState(state, fault) ==
    IF fault = "malformed"
    THEN drainParsed([ok |-> FALSE, buf |-> <<>>, pos |-> 0, q |-> <<>>],
                     MinRecvSpace, state).state
    ELSE parseReceived(recvOutcome(faultSpace(fault), state,
                                   faultResult(fault), <<>>), <<>>).state

\* NetworkManager::processClientMessages on Client object o
processClientMessages(o, fault) ==
    IF ~isConnected(o.state) THEN o
    ELSE IF fault = "timeout" THEN disconnectObject(o, "Timeout")
    ELSE IF o.socket = -1 THEN o
    ELSE [o EXCEPT !.state = pumpState(o.state, fault)]

\* m_clients over the Client objects
tableOf(ids, objs) == [c \in ids |-> objs[c].state]

\* the ids of s in ascending order
RECURSIVE ascending(_)
ascending(s) ==
    IF s = {} THEN <<>>
    ELSE <<CHOOSE c \in s : \A d \in s : c <= d>> \o
         ascending(s \ {CHOOSE c \in s : \A d \in s : c <= d})

\* networkThreadMain: the connected clients of m_clients
clientsToProcess(clients) ==
    ascending({c \in DOMAIN clients : isConnected(clients[c])})

\* a shutdown that does not wait for the accept thread
acceptNotJoined(thread) ==
    thread.pc \in {"stopped", "select", "accept", "handshake"}

\* m_accept_thread.join() returns
acceptJoined(thread) == thread.pc = "stopped"

LifecycleInit ==
    /\ objects = <<>>
    /\ m_running = TRUE
    /\ m_accepting_connections = TRUE
    /\ shutdown_pc = "running"
    /\ accept_thread = [pc |-> "select", id |-> 0]
    /\ net_threads = [t \in NetworkThreads |-> [pc |-> "top", todo |-> <<>>]]
    /\ pumped = <<>>
    /\ disconnected_callbacks = <<>>
    /\ RecvIdle
    /\ QueueIdle
    /\ PipelineIdle
    /\ SessionIdle
    /\ LayersIdle
    /\ CodecIdle
    /\ BatchIdle
    /\ FrameIdle
    /\ AddressIdle
    /\ AcceptIdle
    /\ ServeIdle

exceptLifecycle ==
    <<rxvars, qvars, pvars, svars, lvars, cvars, nvars, ipvars, accept_pc,
      info_client_id, rounds, peer_kind, transport_failed, server_hello,
      handled, fvars, bvars>>

\* a step that leaves the Client objects objs, of which ids are in m_clients,
\* and has called the connected and the disconnected callback for the ids
\* of connected and disconnected
LifecycleNotify(objs, ids, p, connected, disconnected) ==
    /\ objects' = objs
    /\ m_clients' = tableOf(ids, objs)
    /\ pumped' = p
    /\ connected_callbacks' = connected_callbacks \cup connected
    /\ disconnected_callbacks' =
          disconnected_callbacks \o ascending(disconnected)
    /\ UNCHANGED exceptLifecycle

\* a step that calls neither callback
LifecycleApply(objs, ids, p) == LifecycleNotify(objs, ids, p, {}, {})

\* acceptConnections: while (m_accepting_connections)
AcceptLoop ==
    /\ accept_thread.pc = "select"
    /\ accept_thread' = [pc |-> IF m_accepting_connections THEN "accept"
                                ELSE "stopped",
                         id |-> 0]
    /\ LifecycleApply(objects, DOMAIN m_clients, <<>>)
    /\ UNCHANGED <<m_next_client_id, arrivals, m_running,
                   m_accepting_connections, shutdown_pc, net_threads>>

\* select() timed out
SelectTimeout ==
    /\ accept_thread.pc = "accept"
    /\ accept_thread' = [pc |-> "select", id |-> 0]
    /\ LifecycleApply(objects, DOMAIN m_clients, <<>>)
    /\ UNCHANGED <<m_next_client_id, arrivals, m_running,
                   m_accepting_connections, shutdown_pc, net_threads>>

\* select() reported a connection: accept it and enter handleNewClient
NewConnection ==
    /\ accept_thread.pc = "accept"
    /\ arrivals < LifecycleConnections
    /\ arrivals' = arrivals + 1
    /\ IF tableFull(m_clients, MaxClients)
       THEN /\ accept_thread' = [pc |-> "select", id |-> 0]
            /\ LifecycleApply(objects, DOMAIN m_clients, <<>>)
            /\ UNCHANGED m_next_client_id
       ELSE /\ m_next_client_id' = generateClientId(m_next_client_id).next
            /\ accept_thread' =
                  [pc |-> "handshake",
                   id |-> generateClientId(m_next_client_id).id]
            /\ LifecycleApply(
                  [c \in DOMAIN objects \cup
                         {generateClientId(m_next_client_id).id} |->
                      IF c = generateClientId(m_next_client_id).id
                      THEN [state |-> "HANDSHAKE", socket |-> FD,
                            reason |-> ""]
                      ELSE objects[c]],
                  DOMAIN m_clients, <<>>)
    /\ UNCHANGED <<m_running, m_accepting_connections, shutdown_pc,
                   net_threads>>

\* handleNewClient from handleClientHandshake on: the Client is stored in
\* m_clients and m_client_connected_callback called if the handshake
\* succeeded; the Client is destroyed if not
HandshakeEnds ==
    /\ accept_thread.pc = "handshake"
    /\ accept_thread' = [pc |-> "select", id |-> 0]
    /\ \E ok \in BOOLEAN :
          IF ok
          THEN LifecycleNotify(
                  [objects EXCEPT ![accept_thread.id].state = "CONNECTED"],
                  DOMAIN m_clients \cup {accept_thread.id}, <<>>,
                  {accept_thread.id}, {})
          ELSE LifecycleApply(
                  [c \in DOMAIN objects \ {accept_thread.id} |-> objects[c]],
                  DOMAIN m_clients, <<>>)
    /\ UNCHANGED <<m_next_client_id, arrivals, m_running,
                   m_accepting_connections, shutdown_pc, net_threads>>

\* networkThreadMain: while (m_running), then collect the connected clients
NetTop(t) ==
    /\ net_threads[t].pc = "top"
    /\ net_threads' =
          [net_threads EXCEPT ![t] =
              IF m_running
              THEN [pc |-> "process", todo |-> clientsToProcess(m_clients)]
              ELSE [pc |-> "stopped", todo |-> <<>>]]
    /\ LifecycleApply(objects, DOMAIN m_clients, <<>>)
    /\ UNCHANGED <<m_next_client_id, arrivals, m_running,
                   m_accepting_connections, shutdown_pc, accept_thread>>

\* the effect of fault on Client object o, "none" if the call returns early
effective(o, fault) ==
    IF ~isConnected(o.state) \/ (fault # "timeout" /\ o.socket = -1)
    THEN "none" ELSE fault

\* processClientMessages on the next of clients_to_process
NetServe(t) ==
    /\ net_threads[t].pc = "process"
    /\ net_threads[t].todo # <<>>
    /\ net_threads' = [net_threads EXCEPT ![t].todo = Tail(@)]
    /\ \E fault \in Faults :
          LifecycleApply(
              [objects EXCEPT ![Head(net_threads[t].todo)] =
                  processClientMessages(@, fault)],
              DOMAIN m_clients,
              [id |-> Head(net_threads[t].todo),
               fault |-> effective(objects[Head(net_threads[t].todo)], fault)])
    /\ UNCHANGED <<m_next_client_id, arrivals, m_running,
                   m_accepting_connections, shutdown_pc, accept_thread>>

\* cleanupDisconnectedClients: m_client_disconnected_callback is called for
\* each Client that is not connected, and the erased Clients are destroyed
NetErase(t) ==
    /\ net_threads[t].pc = "process"
    /\ net_threads[t].todo = <<>>
    /\ net_threads' = [net_threads EXCEPT ![t].pc = "top"]
    /\ LifecycleNotify(
          [c \in DOMAIN objects |->
              IF c \in DOMAIN m_clients /\ ~isConnected(objects[c].state)
              THEN destroyObject(objects[c]) ELSE objects[c]],
          {c \in DOMAIN m_clients : isConnected(objects[c].state)}, <<>>,
          {}, {c \in DOMAIN m_clients : ~isConnected(objects[c].state)})
    /\ UNCHANGED <<m_next_client_id, arrivals, m_running,
                   m_accepting_connections, shutdown_pc, accept_thread>>

\* NetworkManager::shutdown: the two flags
ShutdownBegins ==
    /\ shutdown_pc = "running"
    /\ m_running
    /\ m_running' = FALSE
    /\ m_accepting_connections' = FALSE
    /\ shutdown_pc' = "join_accept"
    /\ LifecycleApply(objects, DOMAIN m_clients, <<>>)
    /\ UNCHANGED <<m_next_client_id, arrivals, accept_thread, net_threads>>

\* m_accept_thread.join()
ShutdownJoinsAccept ==
    /\ shutdown_pc = "join_accept"
    /\ acceptJoined(accept_thread)
    /\ shutdown_pc' = "drop"
    /\ LifecycleApply(objects, DOMAIN m_clients, <<>>)
    /\ UNCHANGED <<m_next_client_id, arrivals, m_running,
                   m_accepting_connections, accept_thread, net_threads>>

\* disconnect("Server shutdown") on every Client of m_clients, m_clients.clear()
ShutdownDrops ==
    /\ shutdown_pc = "drop"
    /\ shutdown_pc' = "join_network"
    /\ LifecycleApply(
          [c \in DOMAIN objects |->
              IF c \in DOMAIN m_clients
              THEN disconnectObject(objects[c], "Server shutdown")
              ELSE objects[c]],
          {}, <<>>)
    /\ UNCHANGED <<m_next_client_id, arrivals, m_running,
                   m_accepting_connections, accept_thread, net_threads>>

\* the join() of every network thread
ShutdownJoinsNetwork ==
    /\ shutdown_pc = "join_network"
    /\ \A t \in NetworkThreads : net_threads[t].pc = "stopped"
    /\ shutdown_pc' = "done"
    /\ LifecycleApply(objects, DOMAIN m_clients, <<>>)
    /\ UNCHANGED <<m_next_client_id, arrivals, m_running,
                   m_accepting_connections, accept_thread, net_threads>>

NetThreadLoops == \E t \in NetworkThreads : NetTop(t)
NetThreadProcesses == \E t \in NetworkThreads : NetServe(t)
NetThreadCleansUp == \E t \in NetworkThreads : NetErase(t)

LifecycleNext ==
    \/ AcceptLoop
    \/ SelectTimeout
    \/ NewConnection
    \/ HandshakeEnds
    \/ NetThreadLoops
    \/ NetThreadProcesses
    \/ NetThreadCleansUp
    \/ ShutdownBegins
    \/ ShutdownJoinsAccept
    \/ ShutdownDrops
    \/ ShutdownJoinsNetwork

SpecLifecycle == LifecycleInit /\ [][LifecycleNext]_vars

\* C22: a call of processClientMessages that meets a session-local error
\* leaves that session disconnected and changes nothing else: every other
\* Client object, the other entries of m_clients and the manager's run
\* flags are as before.
C22_ErrorsStayInSession ==
    [][(pumped' # <<>> /\ pumped'.fault # "none") =>
          /\ ~isConnected(objects'[pumped'.id].state)
          /\ DOMAIN objects' = DOMAIN objects
          /\ \A d \in DOMAIN objects \ {pumped'.id} : objects'[d] = objects[d]
          /\ DOMAIN m_clients' = DOMAIN m_clients
          /\ m_running' = m_running
          /\ m_accepting_connections' = m_accepting_connections
          /\ shutdown_pc' = shutdown_pc]_vars

\* C24: shutdown() disconnects every connected session of the table with
\* reason "Server shutdown"; from then on the table is empty and stays
\* empty, and when shutdown() has returned the accept thread and every
\* network thread have stopped.
C24_ShutdownDropsSessions ==
    /\ [](shutdown_pc \in {"join_network", "done"} => m_clients = <<>>)
    /\ [](shutdown_pc = "done" =>
             /\ accept_thread.pc = "stopped"
             /\ \A t \in NetworkThreads : net_threads[t].pc = "stopped"
             /\ \A c \in DOMAIN objects : ~isConnected(objects[c].state))
    /\ [][shutdown_pc = "drop" /\ shutdown_pc' # "drop" =>
             \A c \in DOMAIN m_clients :
                 isConnected(objects[c].state) =>
                     /\ objects'[c].reason = "Server shutdown"
                     /\ objects'[c].state = "DISCONNECTED"
                     /\ objects'[c].socket = -1]_vars

C24_Witness ==
    /\ shutdown_pc = "done"
    /\ \E c \in DOMAIN objects : objects[c].reason = "Server shutdown"

\* how many times m_client_disconnected_callback was called for client c
disconnectedCalls(c) ==
    Cardinality({i \in DOMAIN disconnected_callbacks :
                    disconnected_callbacks[i] = c})

\* C40: no session gets the client-disconnected callback twice, and every
\* session that got the client-connected callback and is no longer in the
\* session table has got the client-disconnected callback once, whichever
\* path took it out of the table (cleanup after a peer close, an error or a
\* timeout, or server shutdown).
C40_DisconnectedCallbackOnce ==
    \A c \in connected_callbacks :
        /\ disconnectedCalls(c) <= 1
        /\ c \notin DOMAIN m_clients => disconnectedCalls(c) = 1

-----------------------------------------------------------------------------
(* The render thread: Server::mainLoop and the steps of processFrame, with  *)
(* the shutdown flag set by requestShutdown (a signal, the window's close   *)
(* button) or by Server::shutdown at any moment.                            *)

\* the steps of Server::processFrame in order
FrameSteps ==
    <<"beginFrame", "processCommands", "renderFrame", "endFrame",
      "sendFrameCallbacks", "enforceFrameRate", "measureFrameTime">>

\* the step after step s of processFrame, "test" after the last
stepAfter(s) ==
    IF s = FrameSteps[Len(FrameSteps)] THEN "test"
    ELSE FrameSteps[(CHOOSE i \in DOMAIN FrameSteps : FrameSteps[i] = s) + 1]

InFrame(at) == \E i \in DOMAIN FrameSteps : FrameSteps[i] = at

\* a loop test that does not read the flag
loopIgnoresFlag(requested, state) == state = "RUNNING"

\* mainLoop: while (!m_shutdown_requested && m_state.load() == State::RUNNING)
loopContinues(requested, state) == ~requested /\ state = "RUNNING"

\* Server::run has set RUNNING and entered mainLoop
FrameInit ==
    /\ m_shutdown_requested = FALSE
    /\ server_state = "RUNNING"
    /\ frame_pc = "test"
    /\ frames_started = 0
    /\ frames_rendered = 0
    /\ rendering_errors = 0
    /\ started_after_flag = 0
    /\ flag_at = ""
    /\ RecvIdle
    /\ QueueIdle
    /\ PipelineIdle
    /\ SessionIdle
    /\ LayersIdle
    /\ CodecIdle
    /\ BatchIdle
    /\ ManagerIdle
    /\ AddressIdle
    /\ AcceptIdle
    /\ ServeIdle

exceptFrame ==
    <<rxvars, qvars, pvars, svars, lvars, cvars, avars, nvars, ipvars, mvars,
      bvars>>

\* m_shutdown_requested = true, seen from the render thread
setFlag(requested, at) == IF requested THEN flag_at ELSE at

\* Server::requestShutdown called by another thread
RequestShutdown ==
    /\ ~m_shutdown_requested
    /\ frame_pc # "exited"
    /\ m_shutdown_requested' = TRUE
    /\ flag_at' = setFlag(m_shutdown_requested, frame_pc)
    /\ UNCHANGED <<server_state, frame_pc, frames_started, frames_rendered,
                   rendering_errors, started_after_flag>>
    /\ UNCHANGED exceptFrame

\* Server::shutdown called by another thread: STOPPING, then the flag
ServerShutdown ==
    /\ server_state = "RUNNING"
    /\ frame_pc # "exited"
    /\ server_state' = "STOPPING"
    /\ m_shutdown_requested' = TRUE
    /\ flag_at' = setFlag(m_shutdown_requested, frame_pc)
    /\ UNCHANGED <<frame_pc, frames_started, frames_rendered,
                   rendering_errors, started_after_flag>>
    /\ UNCHANGED exceptFrame

\* the loop test of mainLoop: enter processFrame or leave the loop
LoopTest ==
    /\ frame_pc = "test"
    /\ (frames_started < MaxFrames
           \/ ~loopContinues(m_shutdown_requested, server_state))
    /\ IF loopContinues(m_shutdown_requested, server_state)
       THEN /\ frame_pc' = FrameSteps[1]
            /\ frames_started' = frames_started + 1
            /\ started_after_flag' =
                  started_after_flag + IF m_shutdown_requested THEN 1 ELSE 0
       ELSE /\ frame_pc' = "exited"
            /\ UNCHANGED <<frames_started, started_after_flag>>
    /\ UNCHANGED <<m_shutdown_requested, server_state, frames_rendered,
                   rendering_errors, flag_at>>
    /\ UNCHANGED exceptFrame

\* one step of processFrame returns; after endFrame the window may ask to
\* close (requestShutdown), after the last step the frame is counted
FrameStep ==
    /\ InFrame(frame_pc)
    /\ frame_pc' = stepAfter(frame_pc)
    /\ frames_rendered' =
          frames_rendered + IF stepAfter(frame_pc) = "test" THEN 1 ELSE 0
    /\ \E should_close \in BOOLEAN :
          /\ m_shutdown_requested' =
                (m_shutdown_requested \/
                    (frame_pc = "endFrame" /\ should_close))
          /\ flag_at' = IF frame_pc = "endFrame" /\ should_close
                        THEN setFlag(m_shutdown_requested, frame_pc)
                        ELSE flag_at
    /\ UNCHANGED <<server_state, frames_started, rendering_errors,
                   started_after_flag>>
    /\ UNCHANGED exceptFrame

\* a step of processFrame throws: the catch of mainLoop counts the error
\* and leaves the loop once there were more than RenderingErrorLimit
FrameThrows ==
    /\ InFrame(frame_pc)
    /\ rendering_errors' = rendering_errors + 1
    /\ frame_pc' = IF rendering_errors + 1 > RenderingErrorLimit
                   THEN "exited" ELSE "test"
    /\ UNCHANGED <<m_shutdown_requested, server_state, frames_started,
                   frames_rendered, started_after_flag, flag_at>>
    /\ UNCHANGED exceptFrame

FrameNext ==
    \/ RequestShutdown
    \/ ServerShutdown
    \/ LoopTest
    \/ FrameStep
    \/ FrameThrows

SpecFrame == FrameInit /\ [][FrameNext]_vars

-----------------------------------------------------------------------------
(* BatchRenderer::optimizeBatches over a render order. The batches are      *)
(* drawn from a few keys that differ from one another in one field each;    *)
(* every vertex carries the position its batch had in the render order, so  *)
(* that a merged batch shows what it was made of.                           *)

\* BatchKey values: one base key and one key per field that differs from it
BatchKeys ==
    {[texture_id |-> 1, layer_id |-> 0, blend_mode |-> 0, tint |-> 1],
     [texture_id |-> 2, layer_id |-> 0, blend_mode |-> 0, tint |-> 1],
     [texture_id |-> 1, layer_id |-> 1, blend_mode |-> 0, tint |-> 1],
     [texture_id |-> 1, layer_id |-> 0, blend_mode |-> 1, tint |-> 1],
     [texture_id |-> 1, layer_id |-> 0, blend_mode |-> 0, tint |-> 2]}

\* vertices a batch holds when endFrame begins
VertexCounts == {1, 2}

\* the batch that findOrCreateBatch configures for key and that was filled
\* with n vertices, each tagged origin
RenderBatch(key, n, origin) ==
    [texture_id |-> key.texture_id, layer_id |-> key.layer_id,
     blend_mode |-> key.blend_mode, tint |-> key.tint,
     vertices |-> [k \in 1..n |-> origin], vertex_count |-> n]

\* the render orders endFrame may find
RenderOrders ==
    UNION {{[i \in 1..len |-> RenderBatch(keys[i], counts[i], i)] :
               keys \in [1..len -> BatchKeys],
               counts \in [1..len -> VertexCounts]} : len \in 1..MaxBatches}

\* the key of a batch
keyOf(batch) ==
    [texture_id |-> batch.texture_id, layer_id |-> batch.layer_id,
     blend_mode |-> batch.blend_mode, tint |-> batch.tint]

\* a merge test that does not compare the tints
canMergeAnyTint(batch1, batch2, max_vertices) ==
    /\ batch1.texture_id = batch2.texture_id
    /\ batch1.layer_id = batch2.layer_id
    /\ batch1.blend_mode = batch2.blend_mode
    /\ batch1.vertex_count + batch2.vertex_count <= max_vertices

\* BatchRenderer::canMergeBatches
canMergeBatches(batch1, batch2, max_vertices) ==
    /\ batch1.texture_id = batch2.texture_id
    /\ batch1.layer_id = batch2.layer_id
    /\ batch1.blend_mode = batch2.blend_mode
    /\ batch1.tint = batch2.tint
    /\ batch1.vertex_count + batch2.vertex_count <= max_vertices

\* the body of the if in optimizeBatches: source goes into target
mergeInto(target, source) ==
    [target EXCEPT !.vertices = @ \o source.vertices,
                   !.vertex_count = @ + source.vertex_count]

\* the two loops of optimizeBatches from positions i and j on (counted from
\* 1); after a merge the source is erased and j stays where it is
RECURSIVE optimizeLoop(_, _, _, _)
optimizeLoop(order, i, j, max_vertices) ==
    IF i > Len(order) - 1 THEN order
    ELSE IF j > Len(order) THEN optimizeLoop(order, i + 1, i + 2, max_vertices)
    ELSE IF canMergeBatches(order[i], order[j], max_vertices)
    THEN optimizeLoop(
             [k \in 1..(Len(order) - 1) |->
                 IF k = i THEN mergeInto(order[i], order[j])
                 ELSE IF k < j THEN order[k] ELSE order[k + 1]],
             i, j, max_vertices)
    ELSE optimizeLoop(order, i, j + 1, max_vertices)

\* BatchRenderer::optimizeBatches
optimizeBatches(order, merging_enabled, max_vertices) ==
    IF ~merging_enabled \/ Len(order) < 2 THEN order
    ELSE optimizeLoop(order, 1, 2, max_vertices)

RECURSIVE vertexSum(_)
vertexSum(order) ==
    IF order = <<>> THEN 0
    ELSE Head(order).vertex_count + vertexSum(Tail(order))

BatchInit ==
    /\ m_render_order \in RenderOrders
    /\ submitted = m_render_order
    /\ m_batch_merging_enabled = TRUE
    /\ batch_pc = "filled"
    /\ m_batches = <<>>
    /\ flushed = <<>>
    /\ accepted = {}
    /\ quads_drawn = 0
    /\ RecvIdle
    /\ QueueIdle
    /\ PipelineIdle
    /\ SessionIdle
    /\ LayersIdle
    /\ CodecIdle
    /\ FrameIdle
    /\ ManagerIdle
    /\ AddressIdle
    /\ AcceptIdle
    /\ ServeIdle

exceptBatch ==
    <<rxvars, qvars, pvars, svars, lvars, cvars, avars, nvars, ipvars, mvars,
      fvars>>

\* BatchRenderer::setBatchMerging
SetBatchMerging ==
    /\ batch_pc = "filled"
    /\ \E enabled \in BOOLEAN :
          /\ enabled # m_batch_merging_enabled
          /\ m_batch_merging_enabled' = enabled
    /\ UNCHANGED <<m_render_order, submitted, batch_pc, m_batches, flushed,
                   accepted, quads_drawn>>
    /\ UNCHANGED exceptBatch

\* BatchRenderer::endFrame as far as the optimize
EndFrameOptimize ==
    /\ batch_pc = "filled"
    /\ m_render_order' =
          IF m_batch_merging_enabled
          THEN optimizeBatches(m_render_order, m_batch_merging_enabled,
                               MaxVerticesPerBatch)
          ELSE m_render_order
    /\ batch_pc' = "optimized"
    /\ UNCHANGED <<m_batch_merging_enabled, submitted, m_batches, flushed,
                   accepted, quads_drawn>>
    /\ UNCHANGED exceptBatch

BatchNext ==
    \/ SetBatchMerging
    \/ EndFrameOptimize

SpecBatch == BatchInit /\ [][BatchNext]_vars

\* C27: after the optimize the vertex counts of the batches add up to what
\* they added up to before, each batch's count is the number of its
\* vertices, and every vertex lies in a batch whose key is the key of the
\* batch it came from.
C27_MergePreservesVertices ==
    batch_pc = "optimized" =>
        /\ vertexSum(m_render_order) = vertexSum(submitted)
        /\ \A i \in DOMAIN m_render_order :
              /\ m_render_order[i].vertex_count
                    = Len(m_render_order[i].vertices)
              /\ \A k \in DOMAIN m_render_order[i].vertices :
                    keyOf(submitted[m_render_order[i].vertices[k]])
                        = keyOf(m_render_order[i])

\* three batches were merged into one
C27_Witness ==
    /\ batch_pc = "optimized"
    /\ Len(submitted) = 3
    /\ Len(m_render_order) = 1

-----------------------------------------------------------------------------
(* The batcher over whole frames: beginFrame, drawQuads, flushAll and       *)
(* endFrame in whatever order the caller makes them. Here m_render_order    *)
(* holds, for each RenderBatch* of the vector, the key under which          *)
(* m_batches owns the batch it points to. A quad is known by its number,    *)
(* and each of its four vertices carries that number.                       *)

\* vertices addQuadToBatch appends
QuadVertices == 4

\* quads one drawQuads call brings
QuadCounts == {1, 2}

\* BatchRenderer(max_vertices_per_batch): m_auto_flush_threshold
autoFlushThreshold(max_vertices) == max_vertices \div 2

\* RenderBatch::clear
clearBatch(batch) == [batch EXCEPT !.vertices = <<>>, !.vertex_count = 0]

\* findOrCreateBatch: the batch m_batches has for key, or a new one that
\* also goes to the end of m_render_order
findOrCreateBatch(batches, order, key) ==
    IF key \in DOMAIN batches
    THEN [batches |-> batches, order |-> order]
    ELSE [batches |-> [k \in DOMAIN batches \cup {key} |->
                          IF k = key THEN RenderBatch(key, 0, 0)
                          ELSE batches[k]],
          order |-> Append(order, key)]

addQuadToBatch(batch, quad) ==
    [batch EXCEPT !.vertices = @ \o [k \in 1..QuadVertices |-> quad],
                  !.vertex_count = @ + QuadVertices]

\* flushBatch: out is what has been rendered so far
flushBatch(batch, out) ==
    IF batch.vertex_count = 0
    THEN [batch |-> batch, out |-> out]
    ELSE [batch |-> clearBatch(batch), out |-> out \o batch.vertices]

\* the loop of drawQuads: each quad is added, and the batch is flushed as
\* soon as it holds m_auto_flush_threshold vertices
RECURSIVE drawQuadsLoop(_, _, _, _)
drawQuadsLoop(batch, out, quads, threshold) ==
    IF quads = <<>> THEN [batch |-> batch, out |-> out]
    ELSE IF addQuadToBatch(batch, Head(quads)).vertex_count >= threshold
    THEN drawQuadsLoop(
             flushBatch(addQuadToBatch(batch, Head(quads)), out).batch,
             flushBatch(addQuadToBatch(batch, Head(quads)), out).out,
             Tail(quads), threshold)
    ELSE drawQuadsLoop(addQuadToBatch(batch, Head(quads)), out, Tail(quads),
                       threshold)

\* the comparator of sortBatchesByLayer
layerThenTexture(a, b) ==
    IF a.layer_id # b.layer_id THEN a.layer_id < b.layer_id
    ELSE a.texture_id < b.texture_id

\* sortBatchesByLayer: std::sort leaves batches that the comparator holds
\* equivalent in any order
sortBatchesByLayer(order) ==
    {[i \in DOMAIN order |-> order[f[i]]] :
        f \in {g \in [DOMAIN order -> DOMAIN order] :
                  /\ \A i, j \in DOMAIN order : i # j => g[i] # g[j]
                  /\ \A i, j \in DOMAIN order :
                        i < j => ~layerThenTexture(order[g[j]], order[g[i]])}}

\* the loop of flushAll over the batches m_render_order points to
RECURSIVE flushOrder(_, _)
flushOrder(order, out) ==
    IF order = <<>> THEN out
    ELSE flushOrder(Tail(order), flushBatch(Head(order), out).out)

\* the batches the pointers of m_render_order lead to
pointedBatches(order, batches) == [i \in DOMAIN order |-> batches[order[i]]]

\* BatchRenderer after initialize()
BatchFrameInit ==
    /\ BatchIdle
    /\ RecvIdle
    /\ QueueIdle
    /\ PipelineIdle
    /\ SessionIdle
    /\ LayersIdle
    /\ CodecIdle
    /\ FrameIdle
    /\ ManagerIdle
    /\ AddressIdle
    /\ AcceptIdle
    /\ ServeIdle

\* BatchRenderer::beginFrame: the render order is emptied and every batch
\* of m_batches is cleared, but stays in m_batches
BeginFrame ==
    /\ batch_pc \in {"flushed", "open", "ended"}
    /\ m_render_order' = <<>>
    /\ m_batches' = [k \in DOMAIN m_batches |-> clearBatch(m_batches[k])]
    /\ accepted' = {}
    /\ batch_pc' = "open"
    /\ UNCHANGED <<m_batch_merging_enabled, submitted, flushed, quads_drawn>>
    /\ UNCHANGED exceptBatch

\* what drawQuads does with the batch found or created for key
DrawApply(found, key, quads) ==
    /\ \E r \in {drawQuadsLoop(found.batches[key], flushed, quads,
                                 autoFlushThreshold(BatchCapacity))} :
          /\ m_batches' = [found.batches EXCEPT ![key] = r.batch]
          /\ flushed' = r.out
    /\ m_render_order' = found.order
    /\ accepted' = IF batch_pc = "open"
                   THEN accepted \cup {quads[i] : i \in DOMAIN quads}
                   ELSE accepted
    /\ quads_drawn' = quads_drawn + Len(quads)
    /\ UNCHANGED <<m_batch_merging_enabled, submitted, batch_pc>>
    /\ UNCHANGED exceptBatch

\* BatchRenderer::drawQuads with 4 * n vertices
DrawQuads ==
    /\ batch_pc \in {"flushed", "open", "ended"}
    /\ quads_drawn < MaxQuads
    /\ \E key \in BatchKeys, n \in QuadCounts :
          /\ quads_drawn + n <= MaxQuads
          /\ DrawApply(findOrCreateBatch(m_batches, m_render_order, key), key,
                       [i \in 1..n |-> quads_drawn + i])

\* BatchRenderer::flushAll: the batches of m_render_order are flushed, the
\* render order is emptied, and every batch of m_batches is released and
\* m_batches emptied
FlushAllApply(order, after) ==
    /\ flushed' = flushOrder(order, flushed)
    /\ m_render_order' = <<>>
    /\ m_batches' = <<>>
    /\ batch_pc' = after
    /\ UNCHANGED <<m_batch_merging_enabled, submitted, accepted, quads_drawn>>
    /\ UNCHANGED exceptBatch

FlushAll ==
    /\ batch_pc \in {"flushed", "open", "ended"}
    /\ m_batches # <<>>
    /\ FlushAllApply(pointedBatches(m_render_order, m_batches), batch_pc)

\* BatchRenderer::endFrame: optimizeBatches, sortBatchesByLayer, flushAll
EndFrame ==
    /\ batch_pc \in {"flushed", "open", "ended"}
    /\ \E sorted \in sortBatchesByLayer(
                         optimizeBatches(
                             pointedBatches(m_render_order, m_batches),
                             m_batch_merging_enabled, BatchCapacity)) :
          FlushAllApply(sorted, IF batch_pc = "open" THEN "ended" ELSE batch_pc)

BatchFrameNext ==
    \/ BeginFrame
    \/ DrawQuads
    \/ FlushAll
    \/ EndFrame

SpecBatchFrame == BatchFrameInit /\ [][BatchFrameNext]_vars

\* how many times quad appears among the rendered vertices
occurrences(out, quad) == Cardinality({i \in DOMAIN out : out[i] = quad})

\* C32: no vertex is ever rendered twice, and when endFrame ends a frame
\* every vertex drawQuads took during that frame has been rendered once,
\* by an auto-flush or by the flush of endFrame, and no batch keeps
\* vertices for the next frame.
C32_FrameFlushesEveryVertex ==
    [][/\ \A quad \in 1..MaxQuads :
             occurrences(flushed', quad) <= QuadVertices
       /\ (batch_pc = "open" /\ batch_pc' = "ended") =>
             /\ \A quad \in accepted :
                   occurrences(flushed', quad) = QuadVertices
             /\ \A k \in DOMAIN m_batches' : m_batches'[k].vertex_count = 0
             /\ m_render_order' = <<>>]_vars

-----------------------------------------------------------------------------
(* One received message of a Connected session through                      *)
(* NetworkManager::processMessage and CommandConverter::fromNetworkMessage, *)
(* payloads of every length around the one the tag asks for.                *)

\* sizeof(DrawTexturedQuadsData), sizeof(TexturedVertex), sizeof(PingData)
DrawTexturedQuadsDataSize == 16
TexturedVertexSize == 20
PingDataSize == 8

\* a tag that no MessageType has
NoMessageType == 3

\* a DrawTextData whose text_length field reads declared, followed by
\* tail bytes
textPayload(declared, tail) ==
    Zeros(20) \o LE(2, declared) \o Zeros(2) \o Zeros(tail)

\* a DrawTexturedQuadsData whose quad_count field reads declared, followed
\* by tail bytes
quadsPayload(declared, tail) ==
    Zeros(8) \o LE(4, declared) \o Zeros(4) \o Zeros(tail)

\* the payloads a client sends under each tag
IngressPayloads(type) ==
    CASE type = DRAW_POINT ->
             {Zeros(n) : n \in {0, PayloadSize(DRAW_POINT) - 1,
                                PayloadSize(DRAW_POINT),
                                PayloadSize(DRAW_POINT) + 1}}
      [] type = DRAW_TEXT ->
             {textPayload(declared, tail) :
                 declared \in 0..2, tail \in 0..2}
                 \cup {Zeros(DrawTextDataSize - 1)}
      [] type = DRAW_TEXTURED_QUADS ->
             {quadsPayload(declared, tail) :
                 declared \in {0, 1},
                 tail \in {0, 4 * TexturedVertexSize - 1,
                           4 * TexturedVertexSize, 4 * TexturedVertexSize + 1}}
                 \cup {Zeros(DrawTexturedQuadsDataSize - 1)}
      [] type = CLEAR_LAYER -> {Zeros(0), Zeros(1)}
      [] type = PING -> {Zeros(PingDataSize), Zeros(PingDataSize - 1)}
      [] OTHER -> {Zeros(0)}

IngressTypes ==
    {DRAW_POINT, DRAW_TEXT, DRAW_TEXTURED_QUADS, CLEAR_LAYER, CLEAR_ALL_LAYERS,
     NoMessageType, PING}

\* the bytes of data fromNetworkMessage reads for the header's tag: the
\* struct it casts data to and the tail whose length that struct declares
readExtent(header, data) ==
    CASE header.type = DRAW_POINT -> PayloadSize(DRAW_POINT)
      [] header.type = DRAW_TEXT ->
             IF Len(data) < DrawTextDataSize THEN DrawTextDataSize
             ELSE DrawTextDataSize + FromLE(SubSeq(data, 21, 22))
      [] header.type = DRAW_TEXTURED_QUADS ->
             IF Len(data) < DrawTexturedQuadsDataSize
             THEN DrawTexturedQuadsDataSize
             ELSE DrawTexturedQuadsDataSize
                      + FromLE(SubSeq(data, 9, 12)) * 4 * TexturedVertexSize
      [] OTHER -> 0

\* what processMessage leaves behind: whether it returned true, the commands
\* it gave to m_command_received_callback, the messages it sent to the
\* client, and whether the thread died in it
Dispatched(ok, commands, out, crashed) ==
    [ok |-> ok, commands |-> commands, sent |-> out, crashed |-> crashed]

\* NetworkManager::processMessage. The converter never compares the length
\* of data with what it reads: where it reads past the end the behaviour
\* is undefined, and the thread either goes on with whatever bytes lie
\* there or dies.
processMessageOutcomes(header, data) ==
    IF ~validateMessage(header, data)
    THEN {Dispatched(FALSE, <<>>, <<>>, FALSE)}
    ELSE IF header.type = PING
    THEN {Dispatched(TRUE, <<>>,
                     IF Len(data) = PingDataSize THEN <<[type |-> PONG]>>
                     ELSE <<>>, FALSE)}
    ELSE IF header.type \in {PONG, DISCONNECT}
    THEN {Dispatched(TRUE, <<>>, <<>>, FALSE)}
    ELSE {Dispatched(TRUE, <<fromNetworkMessage(header, 0)>>, <<>>, FALSE)}
             \cup (IF readExtent(header, data) > Len(data)
                   THEN {Dispatched(FALSE, <<>>, <<>>, TRUE)}
                   ELSE {})

\* a message receiveMessages handed back on a Connected session
IngressInit ==
    /\ message \in
          UNION {{[header |-> createHeader(type, 1, sequence, Len(data), layer),
                   data |-> data] :
                     data \in IngressPayloads(type), sequence \in {1, 2},
                     layer \in Layers} : type \in IngressTypes}
    /\ encoded = <<>>
    /\ decoded = <<>>
    /\ verdict = <<>>
    /\ dispatched = <<>>
    /\ RecvIdle
    /\ QueueIdle
    /\ PipelineIdle
    /\ SessionIdle
    /\ LayersIdle
    /\ AcceptIdle
    /\ ServeIdle
    /\ AddressIdle
    /\ ManagerIdle
    /\ FrameIdle
    /\ BatchIdle

ProcessMessage ==
    /\ dispatched = <<>>
    /\ \E r \in processMessageOutcomes(message.header, message.data) :
          dispatched' = r
    /\ UNCHANGED <<message, encoded, decoded, verdict>>
    /\ UNCHANGED exceptCodec

IngressNext == ProcessMessage

SpecIngress == IngressInit /\ [][IngressNext]_vars

\* whether the payload has the size its tag asks for
payloadFits(header, data) ==
    CASE header.type = DRAW_POINT -> Len(data) = PayloadSize(DRAW_POINT)
      [] header.type = DRAW_TEXT ->
             /\ Len(data) >= DrawTextDataSize
             /\ Len(data) = readExtent(header, data)
      [] header.type = DRAW_TEXTURED_QUADS ->
             /\ Len(data) >= DrawTexturedQuadsDataSize
             /\ Len(data) = readExtent(header, data)
      [] header.type = CLEAR_LAYER -> Len(data) = 0
      [] OTHER -> TRUE

\* the tags the converter turns into a render command
Convertible == {DRAW_POINT, DRAW_TEXT, DRAW_TEXTURED_QUADS, CLEAR_LAYER}

\* C33: a message whose payload has not the size its tag asks for (for
\* DRAW_TEXT and DRAW_TEXTURED_QUADS, whose tail is not as long as the count
\* it declares) is rejected: processing it fails in an orderly way and no
\* render command comes of it.
C33_SizeMismatchRejected ==
    (/\ dispatched # <<>>
     /\ message.header.type \in Convertible
     /\ ~payloadFits(message.header, message.data))
        => /\ dispatched.commands = <<>>
           /\ ~dispatched.ok
           /\ ~dispatched.crashed

\* C34: a well-framed message whose command is unknown or malformed gives
\* no render command, and an ERROR_RESPONSE naming the message's sequence
\* number is sent to the client.
C34_ErrorResponseSent ==
    (/\ dispatched # <<>>
     /\ \/ message.header.type \in {CLEAR_ALL_LAYERS, NoMessageType}
        \/ /\ message.header.type \in Convertible
           /\ ~payloadFits(message.header, message.data))
        => /\ dispatched.commands = <<>>
           /\ \E i \in DOMAIN dispatched.sent :
                 /\ dispatched.sent[i].type = ERROR_RESPONSE
                 /\ dispatched.sent[i].original_sequence
                       = message.header.sequence

====
